---------------------------- MODULE Spec2Model ----------------------------
(***************************************************************************)
(* Model of the GLMT streaming bridge: SSEParser (bin/sse-parser.js),      *)
(* DeltaAccumulator (bin/delta-accumulator.js) and the streaming half of   *)
(* GlmtTransformer (bin/glmt-transformer.js: transformDelta,               *)
(* finalizeDelta).                                                         *)
(*                                                                         *)
(* JavaScript values are modelled as tagged records so that truthiness     *)
(* (`if (x)`, `x || y`) is computed the way the code computes it.          *)
(* Strings that carry content are sequences of one-character strings;      *)
(* strings that are only compared (role, model, finish reason, event       *)
(* names) are TLA+ strings.  Date.now() and Math.random() (message id,     *)
(* signature timestamp) are left out of the state.                         *)
(***************************************************************************)
EXTENDS Integers, Sequences, FiniteSets, TLC

VARIABLES
    acc,      \* the DeltaAccumulator of the stream
    calls,    \* history: the calls made on the accumulator / transformer
    ret,      \* events returned by the most recent call (<<>> if it raised)
    threw,    \* TRUE iff the most recent call raised a resource-limit error
    out,      \* history: every downstream event returned so far, in order
    aborted,  \* the stream driver has aborted the connection after an error
    parser,   \* the SSEParser of the connection
    wire,     \* the upstream bytes not yet read from the connection
    encoding, \* how the connection delivers chunks: "buffer" or "utf8"
    pcalls,   \* history: the calls made on the parser
    pret,     \* events returned by the most recent parse call
    pthrew,   \* TRUE iff the most recent parser call raised
    pout,     \* history: every event parse has returned so far, in order
    peer,     \* a second stream served at the same time: its own acc, calls,
              \* ret, threw, out and aborted
    buffered  \* the buffered (non-streaming) transformer: its configuration,
              \* the call made on it, its argument and what it returned

accVars == <<acc, calls, ret, threw, out, aborted>>
parserVars == <<parser, wire, encoding, pcalls, pret, pthrew, pout>>
vars == <<accVars, parserVars, peer, buffered>>

---------------------------------------------------------------------------
(* Bounds of the model *)
MaxMessages == 2
MaxToolUses == 2

\* options.maxBlocks the accumulators are constructed with
MaxBlocks == 2
\* options.maxBufferSize the accumulators are constructed with
MaxBuffer == 3
\* number of calls made on one accumulator / upstream events of one stream
MaxCalls == 5
\* number of upstream events of a stream drawn from MetaEvents
MaxMetaCalls == 3
\* options.maxBufferSize the parsers are constructed with
MaxParserBuffer == 16
\* number of calls made on one parser
MaxParserCalls == 3
\* number of upstream events of each of two concurrent streams
MaxPeerCalls == 3
\* number of calls of a stream that carries tool-call fragments
MaxToolCalls == 4

---------------------------------------------------------------------------
(* JavaScript values *)

Undefined == [js |-> "undefined"]
Null      == [js |-> "null"]
Text(s)   == [js |-> "text", v |-> s]
Name(s)   == [js |-> "name", v |-> s]
Num(n)    == [js |-> "number", v |-> n]
\* a member inherited from Object.prototype (e.g. {}['constructor'])
ProtoMember == [js |-> "function"]

Truthy(x) ==
    CASE x.js = "undefined" -> FALSE
      [] x.js = "null"      -> FALSE
      [] x.js = "text"      -> x.v # <<>>
      [] x.js = "name"      -> x.v # ""
      [] x.js = "number"    -> x.v # 0
      [] x.js = "boolean"   -> x.v
      [] OTHER              -> TRUE

\* x || y
JsOr(x, y) == IF Truthy(x) THEN x ELSE y

Bool(b)  == [js |-> "boolean", v |-> b]
Array(items) == [js |-> "array", items |-> items]
\* reading a property of x raises a TypeError
NoProperties(x) == x.js \in {"undefined", "null"}

\* the event names SSEParser gives its events
EvMessage == <<"m", "e", "s", "s", "a", "g", "e">>
EvDone == <<"d", "o", "n", "e">>

---------------------------------------------------------------------------
(* SSEParser *)

\* options.maxBufferSize || 1024 * 1024
DefaultParserBufferSize == 1048576

SSEParser(options) ==
    [ buffer        |-> <<>>,
      eventCount    |-> 0,
      maxBufferSize |-> JsOr(options.maxBufferSize, Num(DefaultParserBufferSize)).v ]

\* A chunk is a Buffer of bytes or a string.  Bytes below 0x80 are written
\* as their character; "C3" "A9" are the two bytes of U+00E9.
BufferChunk(bytes) == [js |-> "buffer", bytes |-> bytes]

RECURSIVE Utf8Decode(_)
\* Buffer.prototype.toString(): an incomplete or stray byte of a multi-byte
\* character decodes to U+FFFD
Utf8Decode(bytes) ==
    IF bytes = <<>> THEN <<>>
    ELSE IF Head(bytes) = "C3" THEN
            IF Len(bytes) >= 2 /\ bytes[2] = "A9"
            THEN <<"U+00E9">> \o Utf8Decode(Tail(Tail(bytes)))
            ELSE <<"U+FFFD">> \o Utf8Decode(Tail(bytes))
    ELSE IF Head(bytes) = "A9" THEN <<"U+FFFD">> \o Utf8Decode(Tail(bytes))
    ELSE <<Head(bytes)>> \o Utf8Decode(Tail(bytes))

\* chunk.toString()
toString(chunk) ==
    IF chunk.js = "buffer" THEN Utf8Decode(chunk.bytes) ELSE chunk.v

RECURSIVE split(_, _)
\* String.prototype.split(separator) for a one-character separator
split(str, sep) ==
    IF \A i \in 1..Len(str) : str[i] # sep THEN << str >>
    ELSE LET i == CHOOSE k \in 1..Len(str) :
                    str[k] = sep /\ \A j \in 1..(k - 1) : str[j] # sep
         IN << SubSeq(str, 1, i - 1) >> \o split(SubSeq(str, i + 1, Len(str)), sep)

startsWith(str, prefix) ==
    Len(str) >= Len(prefix) /\ SubSeq(str, 1, Len(prefix)) = prefix

\* str.substring(from)
substring(str, from) == SubSeq(str, from + 1, Len(str))

WhiteSpace == {" ", "\t", "\r", "\n"}

RECURSIVE trimStart(_)
trimStart(str) ==
    IF str # <<>> /\ Head(str) \in WhiteSpace THEN trimStart(Tail(str)) ELSE str

RECURSIVE trimEnd(_)
trimEnd(str) ==
    IF str # <<>> /\ str[Len(str)] \in WhiteSpace
    THEN trimEnd(SubSeq(str, 1, Len(str) - 1)) ELSE str

trim(str) == trimEnd(trimStart(str))

RECURSIVE Ones(_)
\* the number written as n digits 1
Ones(n) == IF n = 0 THEN 0 ELSE 10 * Ones(n - 1) + 1

RECURSIVE DigitCount(_)
\* length of the run of digits str starts with (the texts use the digit 1)
DigitCount(str) ==
    IF str # <<>> /\ Head(str) = "1" THEN 1 + DigitCount(Tail(str)) ELSE 0

NaN == [js |-> "NaN"]

\* parseInt(str, 10)
parseInt(str) ==
    LET t == trimStart(str) IN
    IF DigitCount(t) = 0 THEN NaN ELSE Num(Ones(DigitCount(t)))

(* JSON.parse, on texts over the characters { } " : 1 a [ ] space, U+00E9,
   U+FFFD and upper-case letters: a value is a string, a number written
   with the digit 1, or an object with at most one member. *)
SyntaxError == [js |-> "SyntaxError"]
JsonFail == [ok |-> FALSE]
JsonOk(val, rest) == [ok |-> TRUE, val |-> val, rest |-> rest]
JsonObject(members) == [js |-> "object", members |-> members]

RECURSIVE JsonSkipWs(_)
JsonSkipWs(str) ==
    IF str # <<>> /\ Head(str) \in WhiteSpace THEN JsonSkipWs(Tail(str)) ELSE str

\* str starts with a quote
JsonString(str) ==
    IF \E i \in 2..Len(str) : str[i] = "\""
    THEN LET i == CHOOSE k \in 2..Len(str) :
                    str[k] = "\"" /\ \A j \in 2..(k - 1) : str[j] # "\""
         IN JsonOk(Text(SubSeq(str, 2, i - 1)), SubSeq(str, i + 1, Len(str)))
    ELSE JsonFail

RECURSIVE JsonValue(_)
JsonValue(str0) ==
    LET str == JsonSkipWs(str0) IN
    IF str = <<>> THEN JsonFail
    ELSE IF Head(str) = "\"" THEN
        LET r == JsonString(str) IN
        IF r.ok THEN JsonOk(r.val, JsonSkipWs(r.rest)) ELSE JsonFail
    ELSE IF Head(str) = "1" THEN
        JsonOk(Num(Ones(DigitCount(str))),
               JsonSkipWs(SubSeq(str, DigitCount(str) + 1, Len(str))))
    ELSE IF Head(str) = "{" THEN
        LET b == JsonSkipWs(Tail(str)) IN
        IF b = <<>> THEN JsonFail
        ELSE IF Head(b) = "}" THEN JsonOk(JsonObject(<<>>), JsonSkipWs(Tail(b)))
        ELSE IF Head(b) = "\"" THEN
            LET key   == JsonString(b)
                colon == JsonSkipWs(key.rest)
                val   == JsonValue(Tail(colon))
            IN IF ~key.ok \/ colon = <<>> \/ Head(colon) # ":" THEN JsonFail
               ELSE IF ~val.ok \/ val.rest = <<>> \/ Head(val.rest) # "}" THEN JsonFail
               ELSE JsonOk(JsonObject(<< [key |-> key.val.v, value |-> val.val] >>),
                           JsonSkipWs(Tail(val.rest)))
        ELSE JsonFail
    ELSE JsonFail

JSONParse(str) ==
    LET r == JsonValue(str) IN
    IF r.ok /\ r.rest = <<>> THEN r.val ELSE SyntaxError

PrefixEvent == <<"e", "v", "e", "n", "t", ":", " ">>
PrefixData == <<"d", "a", "t", "a", ":", " ">>
PrefixId == <<"i", "d", ":", " ">>
PrefixRetry == <<"r", "e", "t", "r", "y", ":", " ">>
DoneMarker == <<"[", "D", "O", "N", "E", "]">>

\* let currentEvent = { event: 'message', data: '' }
NewEvent ==
    [event |-> EvMessage, data |-> Text(<<>>), id |-> Undefined,
     retry |-> Undefined, index |-> Undefined]

\* one iteration of `for (const line of lines)`: st holds currentEvent,
\* this.eventCount and the local events array
LineStep_NoDone(line, st) ==
    IF startsWith(line, PrefixEvent)
    THEN [st EXCEPT !.currentEvent.event = trim(substring(line, 7))]
    ELSE IF startsWith(line, PrefixData)
    THEN LET data == substring(line, 6) IN
         IF JSONParse(data) # SyntaxError
         THEN [ currentEvent |-> NewEvent,
                eventCount   |-> st.eventCount + 1,
                events       |-> Append(st.events,
                                        [st.currentEvent EXCEPT
                                            !.data = JSONParse(data),
                                            !.index = Num(st.eventCount + 1)]) ]
         ELSE st
    ELSE IF startsWith(line, PrefixId)
    THEN [st EXCEPT !.currentEvent.id = Text(trim(substring(line, 4)))]
    ELSE IF startsWith(line, PrefixRetry)
    THEN [st EXCEPT !.currentEvent.retry = parseInt(substring(line, 7))]
    ELSE st

LineStep_CountMalformed(line, st) ==
    IF startsWith(line, PrefixData)
       /\ substring(line, 6) # DoneMarker
       /\ JSONParse(substring(line, 6)) = SyntaxError
    THEN [st EXCEPT !.eventCount = st.eventCount + 1]
    ELSE LineStep_NoDone(line, st)

LineStep(line, st) ==
    IF startsWith(line, PrefixEvent)
    THEN [st EXCEPT !.currentEvent.event = trim(substring(line, 7))]
    ELSE IF startsWith(line, PrefixData)
    THEN LET data == substring(line, 6) IN
         IF data = DoneMarker
         THEN [ currentEvent |-> NewEvent,
                eventCount   |-> st.eventCount + 1,
                events       |-> Append(st.events,
                                        [event |-> EvDone, data |-> Null,
                                         index |-> Num(st.eventCount + 1)]) ]
         ELSE IF JSONParse(data) # SyntaxError
         THEN [ currentEvent |-> NewEvent,
                eventCount   |-> st.eventCount + 1,
                events       |-> Append(st.events,
                                        [st.currentEvent EXCEPT
                                            !.data = JSONParse(data),
                                            !.index = Num(st.eventCount + 1)]) ]
         ELSE st
    ELSE IF startsWith(line, PrefixId)
    THEN [st EXCEPT !.currentEvent.id = Text(trim(substring(line, 4)))]
    ELSE IF startsWith(line, PrefixRetry)
    THEN [st EXCEPT !.currentEvent.retry = parseInt(substring(line, 7))]
    ELSE st

RECURSIVE ParseLines(_, _)
ParseLines(lines, st) ==
    IF lines = <<>> THEN st
    ELSE ParseLines(Tail(lines), LineStep(Head(lines), st))

\* Result of parse: the parser after the call, the events returned and
\* whether the call raised.
PRes(p, events, t) == [parser |-> p, events |-> events, threw |-> t]

parse_NoCarryOver(p, chunk) ==
    LET buffer == toString(chunk) IN
    IF Len(buffer) > p.maxBufferSize
    THEN PRes([p EXCEPT !.buffer = buffer], <<>>, TRUE)
    ELSE LET lines == split(buffer, "\n")
             st == ParseLines(SubSeq(lines, 1, Len(lines) - 1),
                              [ currentEvent |-> NewEvent,
                                eventCount   |-> p.eventCount,
                                events       |-> <<>> ])
         IN PRes([p EXCEPT !.buffer = lines[Len(lines)],
                           !.eventCount = st.eventCount],
                 st.events, FALSE)

parse_OffByOne(p, chunk) ==
    LET buffer == p.buffer \o toString(chunk) IN
    IF Len(buffer) >= p.maxBufferSize
    THEN PRes([p EXCEPT !.buffer = buffer], <<>>, TRUE)
    ELSE LET lines == split(buffer, "\n")
             st == ParseLines(SubSeq(lines, 1, Len(lines) - 1),
                              [ currentEvent |-> NewEvent,
                                eventCount   |-> p.eventCount,
                                events       |-> <<>> ])
         IN PRes([p EXCEPT !.buffer = lines[Len(lines)],
                           !.eventCount = st.eventCount],
                 st.events, FALSE)

parse_ClearOnThrow(p, chunk) ==
    LET buffer == p.buffer \o toString(chunk) IN
    IF Len(buffer) > p.maxBufferSize
    THEN PRes([p EXCEPT !.buffer = <<>>], <<>>, TRUE)
    ELSE LET lines == split(buffer, "\n")
             st == ParseLines(SubSeq(lines, 1, Len(lines) - 1),
                              [ currentEvent |-> NewEvent,
                                eventCount   |-> p.eventCount,
                                events       |-> <<>> ])
         IN PRes([p EXCEPT !.buffer = lines[Len(lines)],
                           !.eventCount = st.eventCount],
                 st.events, FALSE)

parse(p, chunk) ==
    LET buffer == p.buffer \o toString(chunk) IN
    IF Len(buffer) > p.maxBufferSize
    THEN PRes([p EXCEPT !.buffer = buffer], <<>>, TRUE)
    ELSE LET lines == split(buffer, "\n")
             st == ParseLines(SubSeq(lines, 1, Len(lines) - 1),
                              [ currentEvent |-> NewEvent,
                                eventCount   |-> p.eventCount,
                                events       |-> <<>> ])
         IN PRes([p EXCEPT !.buffer = lines[Len(lines)],
                           !.eventCount = st.eventCount],
                 st.events, FALSE)

reset_KeepCount(p) == [p EXCEPT !.buffer = <<>>]

reset(p) == [p EXCEPT !.buffer = <<>>, !.eventCount = 0]

---------------------------------------------------------------------------
(* DeltaAccumulator *)

\* options.maxBlocks || 100, options.maxBufferSize || 10 * 1024 * 1024
DefaultMaxBlocks == 100
DefaultMaxBufferSize == 10485760

DeltaAccumulator(options) ==
    [ model             |-> Null,
      role              |-> Name("assistant"),
      contentBlocks     |-> <<>>,
      currentBlockIndex |-> -1,
      toolCalls         |-> <<>>,
      thinkingBuffer    |-> <<>>,
      textBuffer        |-> <<>>,
      maxBlocks         |-> JsOr(options.maxBlocks, Num(DefaultMaxBlocks)).v,
      maxBufferSize     |-> JsOr(options.maxBufferSize, Num(DefaultMaxBufferSize)).v,
      messageStarted    |-> FALSE,
      finalized         |-> FALSE,
      inputTokens       |-> 0,
      outputTokens      |-> 0,
      finishReason      |-> Null ]

\* contentBlocks[i] of the code is contentBlocks[i + 1] here
HasCurrentBlock(a) ==
    a.currentBlockIndex >= 0 /\ a.currentBlockIndex < Len(a.contentBlocks)

getCurrentBlock(a) == a.contentBlocks[a.currentBlockIndex + 1]

\* Result of an accumulator method: the accumulator after the call and
\* whether the call raised.
Res(a, t) == [acc |-> a, threw |-> t]

startBlock_OffByOne(a, type) ==
    IF Len(a.contentBlocks) > a.maxBlocks
    THEN Res(a, TRUE)
    ELSE Res([a EXCEPT
                !.currentBlockIndex = @ + 1,
                !.contentBlocks = Append(@, [ index   |-> a.currentBlockIndex + 1,
                                              type    |-> type,
                                              content |-> <<>>,
                                              started |-> TRUE,
                                              stopped |-> FALSE ]),
                !.thinkingBuffer = IF type = "thinking" THEN <<>> ELSE @,
                !.textBuffer = IF type = "text" THEN <<>> ELSE @], FALSE)

startBlock_IndexFromLength(a, type) ==
    IF Len(a.contentBlocks) >= a.maxBlocks
    THEN Res(a, TRUE)
    ELSE Res([a EXCEPT
                !.currentBlockIndex = @ + 1,
                !.contentBlocks = Append(@, [ index   |-> Len(a.contentBlocks) + 1,
                                              type    |-> type,
                                              content |-> <<>>,
                                              started |-> TRUE,
                                              stopped |-> FALSE ]),
                !.thinkingBuffer = IF type = "thinking" THEN <<>> ELSE @,
                !.textBuffer = IF type = "text" THEN <<>> ELSE @], FALSE)

startBlock_IncrementFirst(a, type) ==
    IF Len(a.contentBlocks) >= a.maxBlocks
    THEN Res([a EXCEPT !.currentBlockIndex = @ + 1], TRUE)
    ELSE Res([a EXCEPT
                !.currentBlockIndex = @ + 1,
                !.contentBlocks = Append(@, [ index   |-> a.currentBlockIndex + 1,
                                              type    |-> type,
                                              content |-> <<>>,
                                              started |-> TRUE,
                                              stopped |-> FALSE ]),
                !.thinkingBuffer = IF type = "thinking" THEN <<>> ELSE @,
                !.textBuffer = IF type = "text" THEN <<>> ELSE @], FALSE)

startBlock_KeepBuffer(a, type) ==
    IF Len(a.contentBlocks) >= a.maxBlocks
    THEN Res(a, TRUE)
    ELSE Res([a EXCEPT
                !.currentBlockIndex = @ + 1,
                !.contentBlocks = Append(@, [ index   |-> a.currentBlockIndex + 1,
                                              type    |-> type,
                                              content |-> <<>>,
                                              started |-> TRUE,
                                              stopped |-> FALSE ])], FALSE)

startBlock(a, type) ==
    IF Len(a.contentBlocks) >= a.maxBlocks
    THEN Res(a, TRUE)
    ELSE Res([a EXCEPT
                !.currentBlockIndex = @ + 1,
                !.contentBlocks = Append(@, [ index   |-> a.currentBlockIndex + 1,
                                              type    |-> type,
                                              content |-> <<>>,
                                              started |-> TRUE,
                                              stopped |-> FALSE ]),
                !.thinkingBuffer = IF type = "thinking" THEN <<>> ELSE @,
                !.textBuffer = IF type = "text" THEN <<>> ELSE @], FALSE)

addDelta_OffByOne(a, delta) ==
    IF ~HasCurrentBlock(a) THEN Res(a, FALSE)
    ELSE LET block == getCurrentBlock(a) IN
         IF block.type = "thinking" THEN
            IF Len(a.thinkingBuffer) + Len(delta) >= a.maxBufferSize
            THEN Res(a, TRUE)
            ELSE Res([a EXCEPT
                        !.thinkingBuffer = @ \o delta,
                        !.contentBlocks[a.currentBlockIndex + 1].content =
                            a.thinkingBuffer \o delta], FALSE)
         ELSE IF block.type = "text" THEN
            IF Len(a.textBuffer) + Len(delta) >= a.maxBufferSize
            THEN Res(a, TRUE)
            ELSE Res([a EXCEPT
                        !.textBuffer = @ \o delta,
                        !.contentBlocks[a.currentBlockIndex + 1].content =
                            a.textBuffer \o delta], FALSE)
         ELSE Res(a, FALSE)

addDelta_Overwrite(a, delta) ==
    IF ~HasCurrentBlock(a) THEN Res(a, FALSE)
    ELSE LET block == getCurrentBlock(a) IN
         IF block.type = "thinking" THEN
            IF Len(a.thinkingBuffer) + Len(delta) > a.maxBufferSize
            THEN Res(a, TRUE)
            ELSE Res([a EXCEPT
                        !.thinkingBuffer = @ \o delta,
                        !.contentBlocks[a.currentBlockIndex + 1].content = delta],
                     FALSE)
         ELSE IF block.type = "text" THEN
            IF Len(a.textBuffer) + Len(delta) > a.maxBufferSize
            THEN Res(a, TRUE)
            ELSE Res([a EXCEPT
                        !.textBuffer = @ \o delta,
                        !.contentBlocks[a.currentBlockIndex + 1].content = delta],
                     FALSE)
         ELSE Res(a, FALSE)

addDelta(a, delta) ==
    IF ~HasCurrentBlock(a) THEN Res(a, FALSE)
    ELSE LET block == getCurrentBlock(a) IN
         IF block.type = "thinking" THEN
            IF Len(a.thinkingBuffer) + Len(delta) > a.maxBufferSize
            THEN Res(a, TRUE)
            ELSE Res([a EXCEPT
                        !.thinkingBuffer = @ \o delta,
                        !.contentBlocks[a.currentBlockIndex + 1].content =
                            a.thinkingBuffer \o delta], FALSE)
         ELSE IF block.type = "text" THEN
            IF Len(a.textBuffer) + Len(delta) > a.maxBufferSize
            THEN Res(a, TRUE)
            ELSE Res([a EXCEPT
                        !.textBuffer = @ \o delta,
                        !.contentBlocks[a.currentBlockIndex + 1].content =
                            a.textBuffer \o delta], FALSE)
         ELSE Res(a, FALSE)

stopCurrentBlock(a) ==
    IF HasCurrentBlock(a)
    THEN [a EXCEPT !.contentBlocks[a.currentBlockIndex + 1].stopped = TRUE]
    ELSE a

\* a usage object; a key the object does not have is Undefined
Usage(p, i, c, o) ==
    [js |-> "object", prompt_tokens |-> p, input_tokens |-> i,
     completion_tokens |-> c, output_tokens |-> o]

updateUsage_OpenAIOnly(a, usage) ==
    IF Truthy(usage)
    THEN [a EXCEPT
            !.inputTokens  = JsOr(usage.prompt_tokens, Num(0)).v,
            !.outputTokens = JsOr(usage.completion_tokens, Num(0)).v]
    ELSE a

updateUsage(a, usage) ==
    IF Truthy(usage)
    THEN [a EXCEPT
            !.inputTokens  =
                JsOr(JsOr(usage.prompt_tokens, usage.input_tokens), Num(0)).v,
            !.outputTokens =
                JsOr(JsOr(usage.completion_tokens, usage.output_tokens), Num(0)).v]
    ELSE a

\* a tool-call fragment; function is toolCallDelta.function, with name and
\* arguments; a key the fragment does not have is Undefined
ToolCallDelta(index, id, type, name, arguments) ==
    [ js |-> "object", index |-> index, id |-> id, type |-> type,
      function |-> [js |-> "object", name |-> name, arguments |-> arguments] ]

\* toolCallsIndex[index]: the position in toolCalls of the entry of index, 0
\* if there is none
ToolCallPosition(a, index) ==
    IF \E k \in 1..Len(a.toolCalls) : a.toolCalls[k].index = index
    THEN CHOOSE k \in 1..Len(a.toolCalls) : a.toolCalls[k].index = index
    ELSE 0

addToolCallDelta_NewEntryEachTime(a, toolCallDelta) ==
    [a EXCEPT !.toolCalls = Append(@,
        [ index     |-> toolCallDelta.index,
          id        |-> IF Truthy(toolCallDelta.id) THEN toolCallDelta.id.v ELSE <<>>,
          type      |-> IF Truthy(toolCallDelta.type)
                        THEN toolCallDelta.type.v ELSE "function",
          name      |-> IF Truthy(toolCallDelta.function.name)
                        THEN toolCallDelta.function.name.v ELSE <<>>,
          arguments |-> IF Truthy(toolCallDelta.function.arguments)
                        THEN toolCallDelta.function.arguments.v ELSE <<>> ])]

addToolCallDelta(a, toolCallDelta) ==
    LET index == toolCallDelta.index
        a1 == IF ToolCallPosition(a, index) = 0
              THEN [a EXCEPT !.toolCalls = Append(@,
                        [ index |-> index, id |-> <<>>, type |-> "function",
                          name |-> <<>>, arguments |-> <<>> ])]
              ELSE a
        k  == ToolCallPosition(a1, index)
        a2 == IF Truthy(toolCallDelta.id)
              THEN [a1 EXCEPT !.toolCalls[k].id = toolCallDelta.id.v] ELSE a1
        a3 == IF Truthy(toolCallDelta.type)
              THEN [a2 EXCEPT !.toolCalls[k].type = toolCallDelta.type.v] ELSE a2
        a4 == IF Truthy(toolCallDelta.function.name)
              THEN [a3 EXCEPT !.toolCalls[k].name = @ \o toolCallDelta.function.name.v]
              ELSE a3
    IN IF Truthy(toolCallDelta.function.arguments)
       THEN [a4 EXCEPT !.toolCalls[k].arguments =
                            @ \o toolCallDelta.function.arguments.v]
       ELSE a4

---------------------------------------------------------------------------
(* GlmtTransformer: downstream events *)

\* the first 16 hex digits of sha256(thinking): a deterministic digest with
\* a fixed range, here the letters of the text folded modulo 16
RECURSIVE Digest(_)
Digest(s) ==
    IF s = <<>> THEN 0
    ELSE (3 * Digest(Tail(s)) + (IF Head(s) = "a" THEN 1 ELSE 2)) % 16

\* (timestamp: Date.now() is the wall clock and is left out of the events)
_generateThinkingSignature(thinking) ==
    [type |-> "thinking_signature", hash |-> Digest(thinking), length |-> Len(thinking)]

_mapStopReason_NoDefault(openaiReason) ==
    CASE openaiReason.v = "stop"           -> Name("end_turn")
      [] openaiReason.v = "length"         -> Name("max_tokens")
      [] openaiReason.v = "tool_calls"     -> Name("tool_use")
      [] openaiReason.v = "content_filter" -> Name("stop_sequence")
      [] OTHER                             -> openaiReason

\* names every object literal inherits from Object.prototype
ObjectPrototypeNames ==
    {"constructor", "toString", "valueOf", "hasOwnProperty", "__proto__"}

\* mapping[openaiReason] on the object literal of _mapStopReason
MappingLookup(key) ==
    CASE key = "stop"           -> Name("end_turn")
      [] key = "length"         -> Name("max_tokens")
      [] key = "tool_calls"     -> Name("tool_use")
      [] key = "content_filter" -> Name("stop_sequence")
      [] key \in ObjectPrototypeNames -> ProtoMember
      [] OTHER                  -> Undefined

_mapStopReason(openaiReason) ==
    JsOr(MappingLookup(openaiReason.v), Name("end_turn"))

_createMessageStartEvent(a) ==
    [event |-> "message_start", role |-> a.role,
     model |-> JsOr(a.model, Name("glm-4.6")),
     input_tokens |-> a.inputTokens, output_tokens |-> 0]

_createContentBlockStartEvent(block) ==
    [event |-> "content_block_start", index |-> block.index, type |-> block.type]

_createThinkingDeltaEvent(block, delta) ==
    [event |-> "content_block_delta", index |-> block.index,
     type |-> "thinking_delta", text |-> delta]

_createTextDeltaEvent_Accumulated(block, delta) ==
    [event |-> "content_block_delta", index |-> block.index,
     type |-> "text_delta", text |-> block.content]

_createTextDeltaEvent(block, delta) ==
    [event |-> "content_block_delta", index |-> block.index,
     type |-> "text_delta", text |-> delta]

_createSignatureDeltaEvent(block) ==
    [event |-> "signature_delta", index |-> block.index,
     signature |-> _generateThinkingSignature(block.content)]

_createContentBlockStopEvent(block) ==
    [event |-> "content_block_stop", index |-> block.index]

MessageDeltaEvent(a) ==
    [event |-> "message_delta",
     stop_reason |-> _mapStopReason(JsOr(a.finishReason, Name("stop"))),
     output_tokens |-> a.outputTokens]

MessageStopEvent == [event |-> "message_stop"]

---------------------------------------------------------------------------
(* GlmtTransformer.transformDelta and finalizeDelta *)

\* State of one transformDelta call in progress: the accumulator, the local
\* `events` array and whether an accumulator method has raised.  Once threw
\* is TRUE the rest of the body is skipped and `events` is never returned.
St(a, e, t) == [acc |-> a, events |-> e, threw |-> t]

MessageStartStep_Always(data, s) ==
    LET a1 == IF Truthy(data.model)
              THEN [s.acc EXCEPT !.model = data.model] ELSE s.acc
    IN St([a1 EXCEPT !.messageStarted = TRUE],
          Append(s.events, _createMessageStartEvent(a1)), FALSE)

\* if (!accumulator.messageStarted) { ... }
MessageStartStep(data, s) ==
    IF ~s.acc.messageStarted
    THEN LET a1 == IF Truthy(data.model)
                   THEN [s.acc EXCEPT !.model = data.model] ELSE s.acc
         IN St([a1 EXCEPT !.messageStarted = TRUE],
               Append(s.events, _createMessageStartEvent(a1)), FALSE)
    ELSE s

\* if (delta.role) { accumulator.role = delta.role; }
RoleStep(delta, s) ==
    IF Truthy(delta.role)
    THEN St([s.acc EXCEPT !.role = delta.role], s.events, FALSE)
    ELSE s

\* accumulator.startBlock(type); events.push(content_block_start)
StartBlockStep_NoEvent(type, s) ==
    LET r == startBlock(s.acc, type) IN
    IF r.threw THEN St(r.acc, s.events, TRUE) ELSE St(r.acc, s.events, FALSE)

StartBlockStep(type, s) ==
    LET r == startBlock(s.acc, type) IN
    IF r.threw THEN St(r.acc, s.events, TRUE)
    ELSE St(r.acc,
            Append(s.events, _createContentBlockStartEvent(getCurrentBlock(r.acc))),
            FALSE)

ReasoningStep_AlwaysStart(delta, s) ==
    IF s.threw \/ ~Truthy(delta.reasoning_content) THEN s
    ELSE LET s1 == StartBlockStep("thinking", s)
             r  == addDelta(s1.acc, delta.reasoning_content.v)
         IN IF s1.threw THEN s1
            ELSE IF r.threw THEN St(r.acc, s1.events, TRUE)
            ELSE St(r.acc,
                    Append(s1.events,
                           _createThinkingDeltaEvent(getCurrentBlock(r.acc),
                                                     delta.reasoning_content.v)),
                    FALSE)

\* if (delta.reasoning_content) { ... }
ReasoningStep(delta, s) ==
    IF s.threw \/ ~Truthy(delta.reasoning_content) THEN s
    ELSE LET s1 == IF ~HasCurrentBlock(s.acc)
                      \/ getCurrentBlock(s.acc).type # "thinking"
                   THEN StartBlockStep("thinking", s) ELSE s
             r  == addDelta(s1.acc, delta.reasoning_content.v)
         IN IF s1.threw THEN s1
            ELSE IF r.threw THEN St(r.acc, s1.events, TRUE)
            ELSE St(r.acc,
                    Append(s1.events,
                           _createThinkingDeltaEvent(getCurrentBlock(r.acc),
                                                     delta.reasoning_content.v)),
                    FALSE)

CloseThinkingStep_Skip(s) == s

\* Close thinking block if transitioning from thinking to text
CloseThinkingStep(s) ==
    IF HasCurrentBlock(s.acc)
       /\ getCurrentBlock(s.acc).type = "thinking"
       /\ ~getCurrentBlock(s.acc).stopped
    THEN St(stopCurrentBlock(s.acc),
            s.events \o << _createSignatureDeltaEvent(getCurrentBlock(s.acc)),
                           _createContentBlockStopEvent(getCurrentBlock(s.acc)) >>,
            FALSE)
    ELSE s

\* if (delta.content) { ... }
ContentStep(delta, s) ==
    IF s.threw \/ ~Truthy(delta.content) THEN s
    ELSE LET s1 == CloseThinkingStep(s)
             s2 == IF ~HasCurrentBlock(s1.acc)
                      \/ getCurrentBlock(s1.acc).type # "text"
                   THEN StartBlockStep("text", s1) ELSE s1
             r  == addDelta(s2.acc, delta.content.v)
         IN IF s2.threw THEN s2
            ELSE IF r.threw THEN St(r.acc, s2.events, TRUE)
            ELSE St(r.acc,
                    Append(s2.events,
                           _createTextDeltaEvent(getCurrentBlock(r.acc),
                                                 delta.content.v)),
                    FALSE)

\* if (openaiEvent.data.usage) { accumulator.updateUsage(...) }
UsageStep(data, s) ==
    IF s.threw \/ ~Truthy(data.usage) THEN s
    ELSE St(updateUsage(s.acc, data.usage), s.events, FALSE)

\* if (choice.finish_reason) { accumulator.finishReason = choice.finish_reason; }
FinishReasonStep(choice, s) ==
    IF s.threw \/ ~Truthy(choice.finish_reason) THEN s
    ELSE St([s.acc EXCEPT !.finishReason = choice.finish_reason], s.events, FALSE)

finalizeDelta_NoGuard(a) ==
    LET open == HasCurrentBlock(a) /\ ~getCurrentBlock(a).stopped
        cur  == getCurrentBlock(a)
        e1   == IF open /\ cur.type = "thinking"
                THEN << _createSignatureDeltaEvent(cur) >> ELSE <<>>
        e2   == IF open THEN << _createContentBlockStopEvent(cur) >> ELSE <<>>
        a1   == IF open THEN stopCurrentBlock(a) ELSE a
    IN St([a1 EXCEPT !.finalized = TRUE],
          e1 \o e2 \o << MessageDeltaEvent(a1), MessageStopEvent >>, FALSE)

finalizeDelta_NoFlag(a) ==
    IF a.finalized THEN St(a, <<>>, FALSE)
    ELSE LET open == HasCurrentBlock(a) /\ ~getCurrentBlock(a).stopped
             cur  == getCurrentBlock(a)
             e1   == IF open /\ cur.type = "thinking"
                     THEN << _createSignatureDeltaEvent(cur) >> ELSE <<>>
             e2   == IF open THEN << _createContentBlockStopEvent(cur) >> ELSE <<>>
             a1   == IF open THEN stopCurrentBlock(a) ELSE a
         IN St(a1, e1 \o e2 \o << MessageDeltaEvent(a1), MessageStopEvent >>, FALSE)

finalizeDelta_SignatureAlways(a) ==
    IF a.finalized THEN St(a, <<>>, FALSE)
    ELSE LET open == HasCurrentBlock(a) /\ ~getCurrentBlock(a).stopped
             cur  == getCurrentBlock(a)
             e1   == IF open THEN << _createSignatureDeltaEvent(cur) >> ELSE <<>>
             e2   == IF open THEN << _createContentBlockStopEvent(cur) >> ELSE <<>>
             a1   == IF open THEN stopCurrentBlock(a) ELSE a
         IN St([a1 EXCEPT !.finalized = TRUE],
               e1 \o e2 \o << MessageDeltaEvent(a1), MessageStopEvent >>, FALSE)

finalizeDelta(a) ==
    IF a.finalized THEN St(a, <<>>, FALSE)
    ELSE LET open == HasCurrentBlock(a) /\ ~getCurrentBlock(a).stopped
             cur  == getCurrentBlock(a)
             e1   == IF open /\ cur.type = "thinking"
                     THEN << _createSignatureDeltaEvent(cur) >> ELSE <<>>
             e2   == IF open THEN << _createContentBlockStopEvent(cur) >> ELSE <<>>
             a1   == IF open THEN stopCurrentBlock(a) ELSE a
         IN St([a1 EXCEPT !.finalized = TRUE],
               e1 \o e2 \o << MessageDeltaEvent(a1), MessageStopEvent >>, FALSE)

\* An upstream event as SSEParser returns it: event name and data.  data
\* is Null for the sentinel; otherwise data.choice0 is data.choices?.[0].
transformDelta(openaiEvent, a) ==
    IF openaiEvent.event = EvDone THEN finalizeDelta(a)
    ELSE IF ~Truthy(openaiEvent.data) THEN St(a, <<>>, FALSE)
    ELSE IF ~Truthy(openaiEvent.data.choice0) THEN St(a, <<>>, FALSE)
    ELSE IF ~Truthy(openaiEvent.data.choice0.delta) THEN St(a, <<>>, FALSE)
    ELSE LET data   == openaiEvent.data
             choice == data.choice0
             delta  == choice.delta
             s == FinishReasonStep(choice,
                    UsageStep(data,
                      ContentStep(delta,
                        ReasoningStep(delta,
                          RoleStep(delta,
                            MessageStartStep(data, St(a, <<>>, FALSE)))))))
         IN IF s.threw THEN St(s.acc, <<>>, TRUE) ELSE s

---------------------------------------------------------------------------
(* Upstream events *)

Delta(role, reasoning_content, content) ==
    [js |-> "object", role |-> role,
     reasoning_content |-> reasoning_content, content |-> content]

Choice(delta, finish_reason) ==
    [js |-> "object", delta |-> delta, finish_reason |-> finish_reason]

Data(choice0, model, usage) ==
    [js |-> "object", choice0 |-> choice0, model |-> model, usage |-> usage]

MessageEvent(data) == [event |-> EvMessage, data |-> data]
DoneEvent == [event |-> EvDone, data |-> Null]

\* the content strings upstream deltas carry
Texts == { <<"a">>, <<"b", "b">> }

ReasoningEvent(t) ==
    MessageEvent(Data(Choice(Delta(Undefined, Text(t), Undefined), Null),
                      Undefined, Undefined))
AnswerEvent(t) ==
    MessageEvent(Data(Choice(Delta(Undefined, Undefined, Text(t)), Null),
                      Undefined, Undefined))
\* one delta carrying both reasoning and answer text
BothEvent(r, c) ==
    MessageEvent(Data(Choice(Delta(Undefined, Text(r), Text(c)), Null),
                      Undefined, Undefined))
\* an empty delta object carrying only a finish reason
FinishEvent(reason) ==
    MessageEvent(Data(Choice(Delta(Undefined, Undefined, Undefined), Name(reason)),
                      Undefined, Undefined))
\* { choices: [] }: no first choice
NoChoiceEvent == MessageEvent(Data(Undefined, Undefined, Undefined))

\* upstream events of the content-block state machine
ContentEvents ==
    { ReasoningEvent(t) : t \in Texts } \cup { AnswerEvent(t) : t \in Texts }
    \cup { BothEvent(<<"a">>, <<"a">>), FinishEvent("stop"), DoneEvent }

\* finish reasons an upstream may send; "constructor" stands for the names
\* in ObjectPrototypeNames
FinishReasons ==
    {"stop", "length", "tool_calls", "content_filter", "unknown", "constructor"}

\* the two namings of the usage counters
UsageOpenAI == Usage(Num(1), Undefined, Num(2), Undefined)
UsageAnthropic == Usage(Undefined, Num(3), Undefined, Num(4))

UsageEvent(u) ==
    MessageEvent(Data(Choice(Delta(Undefined, Undefined, Undefined), Null),
                      Undefined, u))
RoleEvent(r) ==
    MessageEvent(Data(Choice(Delta(Name(r), Undefined, Undefined), Null),
                      Undefined, Undefined))
ModelEvent(m) ==
    MessageEvent(Data(Choice(Delta(Undefined, Undefined, Undefined), Null),
                      Name(m), Undefined))
\* { choices: [], usage }: the usage-only chunk of an OpenAI stream
NoChoiceUsageEvent == MessageEvent(Data(Undefined, Undefined, UsageOpenAI))
\* a choice without a delta object, carrying a finish reason
NoDeltaEvent == MessageEvent(Data(Choice(Undefined, Name("length")),
                                  Undefined, Undefined))

\* a reasoning delta longer than the accumulator's maxBufferSize
OversizeEvent == ReasoningEvent(<<"a", "a", "a", "a">>)

\* upstream events carrying metadata: finish reason, usage, role, model
MetaEvents ==
    { FinishEvent(r) : r \in FinishReasons }
    \cup { UsageEvent(UsageOpenAI), UsageEvent(UsageAnthropic),
           RoleEvent("user"), ModelEvent("glm-4.5"),
           NoChoiceEvent, NoChoiceUsageEvent, NoDeltaEvent,
           AnswerEvent(<<>>), ReasoningEvent(<<"a">>), AnswerEvent(<<"a">>),
           OversizeEvent, DoneEvent }

---------------------------------------------------------------------------
(* GlmtTransformer: the buffered request transform *)

\* constructor(config = {}): this.defaultThinking = config.defaultThinking ?? true
GlmtTransformer(config) ==
    [ defaultThinking |-> IF config.defaultThinking.js \in {"undefined", "null"}
                          THEN TRUE ELSE config.defaultThinking.v ]

\* A string of a message is kept as the sequence of its pieces: each piece
\* is either a control tag as it is spelled in the text, or text that holds
\* no tag.
\* the group a regular expression captures in one piece, "" if the piece
\* does not match: /<Thinking:(On|Off)>/i and /<Effort:(Low|Medium|High)>/i
exec(regex, piece) ==
    CASE regex = "Thinking" /\ piece = "<Thinking:On>"  -> "On"
      [] regex = "Thinking" /\ piece = "<thinking:on>"  -> "on"
      [] regex = "Thinking" /\ piece = "<Thinking:Off>" -> "Off"
      [] regex = "Thinking" /\ piece = "<THINKING:OFF>" -> "OFF"
      [] regex = "Effort" /\ piece = "<Effort:Low>"     -> "Low"
      [] regex = "Effort" /\ piece = "<Effort:Medium>"  -> "Medium"
      [] regex = "Effort" /\ piece = "<Effort:High>"    -> "High"
      [] regex = "Effort" /\ piece = "<EFFORT:HIGH>"    -> "HIGH"
      [] regex = "Effort" /\ piece = "<effort:low>"     -> "low"
      [] OTHER                                          -> ""

toLowerCase(s) ==
    CASE s \in {"On", "on"}       -> "on"
      [] s \in {"Off", "OFF"}     -> "off"
      [] s \in {"Low", "low"}     -> "low"
      [] s = "Medium"             -> "medium"
      [] s \in {"High", "HIGH"}   -> "high"
      [] OTHER                    -> s

\* content.match(regex)[1] for a regex without the g flag: the group of the
\* leftmost match, "" when there is no match
match(content, regex) ==
    LET hits == {i \in 1..Len(content) : exec(regex, content[i]) # ""} IN
    IF hits = {} THEN ""
    ELSE exec(regex, content[CHOOSE i \in hits : \A j \in hits : i <= j])

\* the outcome of a step that may raise
Returned(value) == [threw |-> FALSE, value |-> value]
\* throw of an error with the given message
Throw(message) == [threw |-> TRUE, message |-> message]

\* the for loop of _extractThinkingControl over the messages left
RECURSIVE ScanMessages(_, _)
ScanMessages(items, config) ==
    IF items = <<>> THEN Returned(config)
    ELSE LET msg == Head(items) IN
    IF NoProperties(msg) THEN Throw("TypeError")
    ELSE IF msg.js # "object" \/ msg.role # Name("user") \/ msg.content.js # "text"
    THEN ScanMessages(Tail(items), config)
    ELSE
        LET thinkingMatch == match(msg.content.v, "Thinking")
            effortMatch == match(msg.content.v, "Effort")
        IN  ScanMessages(Tail(items),
                [thinking |-> IF thinkingMatch # ""
                              THEN toLowerCase(thinkingMatch) = "on"
                              ELSE config.thinking,
                 effort |-> IF effortMatch # ""
                            THEN toLowerCase(effortMatch) ELSE config.effort])

_extractThinkingControl(t, messages) ==
    IF messages.js # "array" THEN Throw("TypeError")
    ELSE ScanMessages(messages.items,
                      [thinking |-> t.defaultThinking, effort |-> "medium"])

Message(role, content) == [js |-> "object", role |-> role, content |-> content]
Block(type, text) == [js |-> "object", type |-> Name(type), text |-> text]

\* msg.content.filter(block => block.type === 'text')
RECURSIVE FilterText(_)
FilterText(blocks) ==
    IF blocks = <<>> THEN Returned(<<>>)
    ELSE IF NoProperties(Head(blocks)) THEN Throw("TypeError")
    ELSE LET rest == FilterText(Tail(blocks)) IN
         IF rest.threw THEN Throw("TypeError")
         ELSE IF Head(blocks).js = "object" /\ Head(blocks).type = Name("text")
              THEN Returned(<<Head(blocks)>> \o rest.value)
              ELSE rest

\* the callback of messages.map in _sanitizeMessages
SanitizeMessage_KeepList(msg) ==
    IF NoProperties(msg) THEN Throw("TypeError")
    ELSE IF msg.js # "object" \/ msg.content.js = "text" THEN Returned(msg)
    ELSE IF msg.content.js = "array" THEN
        LET sanitizedContent == FilterText(msg.content.items) IN
        IF sanitizedContent.threw THEN Throw("TypeError")
        ELSE Returned(Message(msg.role, Array(sanitizedContent.value)))
    ELSE Returned(msg)

SanitizeMessage(msg) ==
    IF NoProperties(msg) THEN Throw("TypeError")
    ELSE IF msg.js # "object" \/ msg.content.js = "text" THEN Returned(msg)
    ELSE IF msg.content.js = "array" THEN
        LET sanitizedContent == FilterText(msg.content.items) IN
        IF sanitizedContent.threw THEN Throw("TypeError")
        ELSE IF Len(sanitizedContent.value) = 0
             THEN Returned(Message(msg.role, Text(<<>>)))
        ELSE IF Len(sanitizedContent.value) = 1
             THEN Returned(Message(msg.role, sanitizedContent.value[1].text))
        ELSE Returned(Message(msg.role, Array(sanitizedContent.value)))
    ELSE Returned(msg)

RECURSIVE SanitizeEach(_)
SanitizeEach(items) ==
    IF items = <<>> THEN Returned(<<>>)
    ELSE LET first == SanitizeMessage(Head(items)) IN
         IF first.threw THEN Throw("TypeError")
         ELSE LET rest == SanitizeEach(Tail(items)) IN
              IF rest.threw THEN Throw("TypeError")
              ELSE Returned(<<first.value>> \o rest.value)

_sanitizeMessages(messages) ==
    IF messages.js # "array" THEN Throw("TypeError")
    ELSE LET mapped == SanitizeEach(messages.items) IN
         IF mapped.threw THEN Throw("TypeError") ELSE Returned(Array(mapped.value))

_mapModel(anthropicModel) == Name("GLM-4.6")

\* this.modelMaxTokens[model] || 128000
_getMaxTokens(model) ==
    JsOr(CASE model = Name("GLM-4.6")     -> Num(128000)
           [] model = Name("GLM-4.5")     -> Num(96000)
           [] model = Name("GLM-4.5-air") -> Num(16000)
           [] OTHER                       -> Undefined,
         Num(128000))

_injectReasoningParams(openaiRequest, thinkingConfig) ==
    [openaiRequest EXCEPT
        !.do_sample = Bool(TRUE),
        !.reasoning = IF thinkingConfig.thinking THEN Bool(TRUE) ELSE @,
        !.reasoning_effort = IF thinkingConfig.thinking
                             THEN Name(thinkingConfig.effort) ELSE @]

\* the try block of transformRequest
TranslateRequest(t, anthropicRequest) ==
    IF NoProperties(anthropicRequest) THEN Throw("TypeError")
    ELSE
    LET messages == JsOr(anthropicRequest.messages, Array(<<>>))
        thinkingConfig == _extractThinkingControl(t, messages)
        glmModel == _mapModel(Undefined)
        sanitized == _sanitizeMessages(messages)
    IN  IF thinkingConfig.threw \/ sanitized.threw THEN Throw("TypeError")
        ELSE Returned(
             [openaiRequest |->
                _injectReasoningParams(
                    [js |-> "object",
                     model |-> glmModel,
                     messages |-> sanitized.value,
                     max_tokens |-> _getMaxTokens(glmModel),
                     stream |-> IF anthropicRequest.stream = Undefined
                                THEN Bool(FALSE) ELSE anthropicRequest.stream,
                     temperature |-> anthropicRequest.temperature,
                     top_p |-> anthropicRequest.top_p,
                     do_sample |-> Undefined,
                     reasoning |-> Undefined,
                     reasoning_effort |-> Undefined],
                    thinkingConfig.value),
              thinkingConfig |-> thinkingConfig.value,
              error |-> FALSE])

transformRequest_NoCatch(t, anthropicRequest) ==
    LET translated == TranslateRequest(t, anthropicRequest) IN
    IF translated.threw THEN translated ELSE translated.value

transformRequest(t, anthropicRequest) ==
    LET translated == TranslateRequest(t, anthropicRequest) IN
    IF translated.threw
    THEN [openaiRequest |-> anthropicRequest,
          thinkingConfig |-> [thinking |-> FALSE],
          error |-> TRUE]
    ELSE translated.value

---------------------------------------------------------------------------
(* GlmtTransformer: the buffered response transform *)

\* one callback of message.tool_calls.forEach
ToolUseBlock_EmptyOnError(toolCall) ==
    IF NoProperties(toolCall) \/ NoProperties(toolCall.function)
    THEN Throw("TypeError")
    ELSE LET input == JSONParse(JsOr(toolCall.function.arguments,
                                     Text(<<"{", "}">>)).v) IN
         Returned([type |-> "tool_use", id |-> toolCall.id,
                   name |-> toolCall.function.name,
                   input |-> IF input = SyntaxError THEN JsonObject(<<>>) ELSE input])

ToolUseBlock(toolCall) ==
    IF NoProperties(toolCall) \/ NoProperties(toolCall.function)
    THEN Throw("TypeError")
    ELSE LET input == JSONParse(JsOr(toolCall.function.arguments,
                                     Text(<<"{", "}">>)).v) IN
         IF input = SyntaxError THEN Throw("SyntaxError")
         ELSE Returned([type |-> "tool_use", id |-> toolCall.id,
                        name |-> toolCall.function.name, input |-> input])

\* message.tool_calls.forEach(toolCall => content.push(...)) for the tool
\* calls left, content being the list built so far
RECURSIVE ToolUseBlocks(_, _)
ToolUseBlocks(toolCalls, content) ==
    IF toolCalls = <<>> THEN Returned(content)
    ELSE LET pushed == ToolUseBlock(Head(toolCalls)) IN
         IF pushed.threw THEN pushed
         ELSE ToolUseBlocks(Tail(toolCalls), Append(content, pushed.value))

\* the content list transformResponse builds from choice.message
ContentBlocks_TextFirst(message) ==
    ToolUseBlocks(
        IF Truthy(message.tool_calls) /\ Len(message.tool_calls.items) > 0
        THEN message.tool_calls.items ELSE <<>>,
        (IF Truthy(message.content)
         THEN <<[type |-> "text", text |-> message.content]>> ELSE <<>>)
        \o
        (IF Truthy(message.reasoning_content)
         THEN <<[type |-> "thinking", thinking |-> message.reasoning_content,
                 signature |-> _generateThinkingSignature(message.reasoning_content.v)]>>
         ELSE <<>>))

ContentBlocks(message) ==
    ToolUseBlocks(
        IF Truthy(message.tool_calls) /\ Len(message.tool_calls.items) > 0
        THEN message.tool_calls.items ELSE <<>>,
        (IF Truthy(message.reasoning_content)
         THEN <<[type |-> "thinking", thinking |-> message.reasoning_content,
                 signature |-> _generateThinkingSignature(message.reasoning_content.v)]>>
         ELSE <<>>)
        \o
        (IF Truthy(message.content)
         THEN <<[type |-> "text", text |-> message.content]>> ELSE <<>>))

ZeroUsage == [js |-> "object", input_tokens |-> Num(0), output_tokens |-> Num(0)]

\* the try block of transformResponse
\* (ids: the digits of Date.now() are the wall clock and are left out)
TranslateResponse(t, openaiResponse) ==
    IF NoProperties(openaiResponse) THEN Throw("TypeError")
    ELSE LET choice == IF NoProperties(openaiResponse.choices) THEN Undefined
                       ELSE IF openaiResponse.choices.items = <<>> THEN Undefined
                       ELSE openaiResponse.choices.items[1] IN
    IF ~Truthy(choice) THEN Throw("No choices in OpenAI response")
    ELSE IF NoProperties(choice.message) THEN Throw("TypeError")
    ELSE LET content == ContentBlocks(choice.message) IN
    IF content.threw THEN content
    ELSE Returned(
         [id |-> JsOr(openaiResponse.id, Name("msg_")),
          type |-> "message",
          role |-> "assistant",
          content |-> content.value,
          model |-> JsOr(openaiResponse.model, Name("glm-4.6")),
          stop_reason |-> _mapStopReason(choice.finish_reason),
          usage |-> JsOr(openaiResponse.usage, ZeroUsage)])

\* the catch block of transformResponse, given the outcome of the try block
ResponseFallback(translated) ==
    IF translated.threw
    THEN [id |-> Name("msg_error_"),
          type |-> "message",
          role |-> "assistant",
          content |-> <<[type |-> "text",
                         text |-> Text(<<"[Transformation Error] ",
                                         translated.message>>)]>>,
          stop_reason |-> Name("end_turn"),
          usage |-> ZeroUsage]
    ELSE translated.value

\* (the thinkingConfig parameter is not read by the method)
transformResponse(t, openaiResponse) ==
    ResponseFallback(TranslateResponse(t, openaiResponse))

\* the buffered transformer before any call, as the proxy constructs it
NoBufferedCall ==
    [transformer |-> GlmtTransformer([defaultThinking |-> Undefined]),
     call |-> "none", arg |-> Undefined, result |-> Undefined]

---------------------------------------------------------------------------
(* The stream: one accumulator driven through the transformer *)

\* the state of a stream before its first upstream event
NewStream ==
    [ acc     |-> DeltaAccumulator([maxBlocks |-> Num(MaxBlocks),
                                    maxBufferSize |-> Num(MaxBuffer)]),
      calls   |-> <<>>,
      ret     |-> <<>>,
      threw   |-> FALSE,
      out     |-> <<>>,
      aborted |-> FALSE ]

Init ==
    /\ acc = DeltaAccumulator([maxBlocks |-> Num(MaxBlocks),
                               maxBufferSize |-> Num(MaxBuffer)])
    /\ calls = <<>>
    /\ ret = <<>>
    /\ threw = FALSE
    /\ out = <<>>
    /\ aborted = FALSE
    /\ parser = SSEParser([maxBufferSize |-> Num(MaxParserBuffer)])
    /\ wire = <<>>
    /\ encoding = "buffer"
    /\ pcalls = <<>>
    /\ pret = <<>>
    /\ pthrew = FALSE
    /\ pout = <<>>
    /\ peer = NewStream
    /\ buffered = NoBufferedCall

\* The driver of a connection stops calling into the transformer once a
\* call has raised: a resource-limit error terminates that stream.
StreamOpen == ~aborted

\* the read loop passes one parsed upstream event to transformDelta
TransformDelta(ev) ==
    /\ StreamOpen
    /\ Len(calls) < MaxCalls
    /\ LET r == transformDelta(ev, acc) IN
        /\ acc' = r.acc
        /\ ret' = r.events
        /\ threw' = r.threw
        /\ out' = out \o r.events
        /\ aborted' = r.threw
    /\ calls' = Append(calls, [op |-> "transformDelta", arg |-> ev])
    /\ UNCHANGED <<parserVars, peer, buffered>>

\* the caller invokes finalizeDelta itself (upstream closed without sentinel)
FinalizeDelta ==
    /\ StreamOpen
    /\ Len(calls) < MaxCalls
    /\ LET r == finalizeDelta(acc) IN
        /\ acc' = r.acc
        /\ ret' = r.events
        /\ threw' = r.threw
        /\ out' = out \o r.events
        /\ aborted' = r.threw
    /\ calls' = Append(calls, [op |-> "finalizeDelta", arg |-> DoneEvent])
    /\ UNCHANGED <<parserVars, peer, buffered>>

Next ==
    \/ \E ev \in ContentEvents : TransformDelta(ev)
    \/ FinalizeDelta

Spec == Init /\ [][Next]_vars

\* the same stream fed with metadata events
MetaTransformDelta(ev) == Len(calls) < MaxMetaCalls /\ TransformDelta(ev)

MetaFinalizeDelta == Len(calls) < MaxMetaCalls /\ FinalizeDelta

NextMeta ==
    \/ \E ev \in MetaEvents : MetaTransformDelta(ev)
    \/ MetaFinalizeDelta

SpecMeta == Init /\ [][NextMeta]_vars

---------------------------------------------------------------------------
(* The accumulator driven directly through its methods *)

Kinds == {"thinking", "text", "tool_use"}

AccCall(op, arg, r) ==
    /\ Len(calls) < MaxCalls
    /\ acc' = r.acc
    /\ threw' = r.threw
    /\ calls' = Append(calls, [op |-> op, arg |-> arg])
    /\ UNCHANGED <<ret, out, aborted>>
    /\ UNCHANGED <<parserVars, peer, buffered>>

StartBlock(type) == AccCall("startBlock", type, startBlock(acc, type))

AddDelta(delta) == AccCall("addDelta", delta, addDelta(acc, delta))

StopCurrentBlock == AccCall("stopCurrentBlock", "", Res(stopCurrentBlock(acc), FALSE))

UpdateUsage(usage) == AccCall("updateUsage", usage, Res(updateUsage(acc, usage), FALSE))

NextAcc ==
    \/ \E type \in Kinds : StartBlock(type)
    \/ \E delta \in Texts : AddDelta(delta)
    \/ StopCurrentBlock
    \/ \E usage \in {UsageOpenAI, UsageAnthropic} : UpdateUsage(usage)

SpecAcc == Init /\ [][NextAcc]_vars

---------------------------------------------------------------------------
(* The buffered request transform applied to one request *)

RequestMessages ==
    { Message(Name("user"), Text(s)) :
        s \in { <<"hi">>,
                <<"<Thinking:Off>">>,
                <<"<thinking:on>", "hi", "<THINKING:OFF>">>,
                <<"<Effort:High>", "<effort:low>">>,
                <<"<Thinking:Maybe>", "<Effort:Medium>", "<Thinking:On>">> } }
    \cup
    { Message(Name("assistant"), Text(<<"<Thinking:Off>", "<EFFORT:HIGH>">>)),
      Message(Name("user"),
              Array(<<Block("text", Text(<<"<Thinking:Off>", "<Effort:Low>">>))>>)),
      Message(Name("assistant"),
              Array(<<Block("thinking", Undefined), Block("text", Text(<<"hi">>)),
                      Block("tool_use", Undefined), Block("text", Text(<<>>))>>)),
      Message(Name("assistant"),
              Array(<<Block("thinking", Undefined), Block("tool_use", Undefined)>>)),
      Message(Name("user"), Array(<<>>)),
      Message(Name("user"), Array(<<Block("text", Text(<<"hi">>)), Null>>)),
      Null }

Requests ==
    { [js |-> "object", messages |-> messages, stream |-> o[1],
       temperature |-> o[2], top_p |-> o[2]] :
        messages \in {Undefined, Num(1)} \cup
            { Array(l) : l \in UNION { [1..n -> RequestMessages] : n \in 0..MaxMessages } },
        o \in {<<Undefined, Undefined>>, <<Bool(TRUE), Num(1)>>, <<Null, Undefined>>} }
    \cup {Null}

InitRequest ==
    /\ acc = DeltaAccumulator([maxBlocks |-> Num(MaxBlocks),
                               maxBufferSize |-> Num(MaxBuffer)])
    /\ calls = <<>>
    /\ ret = <<>>
    /\ threw = FALSE
    /\ out = <<>>
    /\ aborted = FALSE
    /\ parser = SSEParser([maxBufferSize |-> Num(MaxParserBuffer)])
    /\ wire = <<>>
    /\ encoding = "buffer"
    /\ pcalls = <<>>
    /\ pret = <<>>
    /\ pthrew = FALSE
    /\ pout = <<>>
    /\ peer = NewStream
    /\ \E defaultThinking \in {Undefined, Bool(FALSE)}, request \in Requests :
        buffered = [transformer |-> GlmtTransformer([defaultThinking |-> defaultThinking]),
                    call |-> "none",
                    arg |-> request, result |-> Undefined]

\* the proxy hands the request it received to transformRequest
TransformRequest ==
    /\ buffered.call = "none"
    /\ buffered' = [buffered EXCEPT
                        !.call = "transformRequest",
                        !.result = transformRequest(buffered.transformer, buffered.arg)]
    /\ UNCHANGED <<accVars, parserVars, peer>>

SpecRequest == InitRequest /\ [][TransformRequest]_vars

---------------------------------------------------------------------------
(* The buffered response transform applied to one response *)

\* the tool calls of a response; their argument strings are an object, the
\* empty string, a truncated object and the empty object
ToolCall(id, name, arguments) ==
    [js |-> "object", id |-> Name(id),
     function |-> [js |-> "object", name |-> Name(name), arguments |-> Text(arguments)]]

ToolCalls ==
    { ToolCall("call_1", "read", <<"{", "\"", "a", "\"", ":", "1", "}">>),
      ToolCall("call_2", "list", <<>>),
      ToolCall("call_3", "write", <<"{", "\"", "a", "\"", ":">>),
      ToolCall("call_4", "stat", <<"{", "}">>) }

ResponseMessages ==
    { [js |-> "object", reasoning_content |-> r, content |-> c, tool_calls |-> tc] :
        r \in {Undefined, Text(<<>>), Text(<<"a", "b">>)},
        c \in {Undefined, Text(<<>>), Text(<<"b">>)},
        tc \in {Undefined} \cup
            { Array(l) : l \in UNION { [1..n -> ToolCalls] : n \in 0..MaxToolUses } } }

Responses ==
    { [js |-> "object", id |-> Name("chatcmpl"), model |-> Undefined,
       choices |-> choices, usage |-> usage] :
        choices \in {Undefined, Array(<<>>), Array(<<Null>>),
                     Array(<<[js |-> "object", message |-> Undefined,
                              finish_reason |-> Name("stop")]>>)}
                    \cup { Array(<<[js |-> "object", message |-> m,
                                    finish_reason |-> Name(f)]>>) :
                               m \in ResponseMessages, f \in {"stop", "tool_calls"} },
        usage \in {Undefined, UsageAnthropic} }
    \cup {Null}

InitResponse ==
    /\ acc = DeltaAccumulator([maxBlocks |-> Num(MaxBlocks),
                               maxBufferSize |-> Num(MaxBuffer)])
    /\ calls = <<>>
    /\ ret = <<>>
    /\ threw = FALSE
    /\ out = <<>>
    /\ aborted = FALSE
    /\ parser = SSEParser([maxBufferSize |-> Num(MaxParserBuffer)])
    /\ wire = <<>>
    /\ encoding = "buffer"
    /\ pcalls = <<>>
    /\ pret = <<>>
    /\ pthrew = FALSE
    /\ pout = <<>>
    /\ peer = NewStream
    /\ \E response \in Responses :
        buffered = [NoBufferedCall EXCEPT !.arg = response]

\* the proxy hands the upstream response to transformResponse
TransformResponse ==
    /\ buffered.call = "none"
    /\ buffered' = [buffered EXCEPT
                        !.call = "transformResponse",
                        !.result = transformResponse(buffered.transformer, buffered.arg)]
    /\ UNCHANGED <<accVars, parserVars, peer>>

SpecResponse == InitResponse /\ [][TransformResponse]_vars

---------------------------------------------------------------------------
(* Two streams driven through one transformer *)

\* the stream held in acc, calls, ret, threw, out and aborted
Self ==
    [ acc |-> acc, calls |-> calls, ret |-> ret, threw |-> threw,
      out |-> out, aborted |-> aborted ]

Drive_SharedEvents(ev, own, other) ==
    LET r == transformDelta(ev, own.acc) IN
    [ own   |-> [ acc     |-> r.acc,
                  calls   |-> Append(own.calls, [op |-> "transformDelta", arg |-> ev]),
                  ret     |-> r.events,
                  threw   |-> r.threw,
                  out     |-> own.out \o r.events,
                  aborted |-> r.threw ],
      other |-> [other EXCEPT !.out = @ \o r.events] ]

\* transformer.transformDelta(ev, accumulator) for the stream `own` while
\* the stream `other` is in flight: the call works on the accumulator it is
\* given and on its local `events` array
Drive(ev, own, other) ==
    LET r == transformDelta(ev, own.acc) IN
    [ own   |-> [ acc     |-> r.acc,
                  calls   |-> Append(own.calls, [op |-> "transformDelta", arg |-> ev]),
                  ret     |-> r.events,
                  threw   |-> r.threw,
                  out     |-> own.out \o r.events,
                  aborted |-> r.threw ],
      other |-> other ]

\* upstream events of the two streams
PeerEvents ==
    { ReasoningEvent(<<"b", "b">>), AnswerEvent(<<"a">>),
      UsageEvent(UsageOpenAI), DoneEvent }

SetSelf(s) ==
    /\ acc' = s.acc
    /\ calls' = s.calls
    /\ ret' = s.ret
    /\ threw' = s.threw
    /\ out' = s.out
    /\ aborted' = s.aborted

OwnTransformDelta(ev) ==
    /\ StreamOpen
    /\ Len(calls) < MaxPeerCalls
    /\ LET d == Drive(ev, Self, peer) IN SetSelf(d.own) /\ peer' = d.other
    /\ UNCHANGED <<parserVars, buffered>>

PeerTransformDelta(ev) ==
    /\ ~peer.aborted
    /\ Len(peer.calls) < MaxPeerCalls
    /\ LET d == Drive(ev, peer, Self) IN peer' = d.own /\ SetSelf(d.other)
    /\ UNCHANGED <<parserVars, buffered>>

NextPeer ==
    \/ \E ev \in PeerEvents : OwnTransformDelta(ev)
    \/ \E ev \in PeerEvents : PeerTransformDelta(ev)

SpecPeer == Init /\ [][NextPeer]_vars

---------------------------------------------------------------------------
(* A stream that carries tool-call fragments *)

\* the fragments of two tool calls: ids, names and arguments in pieces
ToolCallDeltas ==
    { ToolCallDelta(0, Text(<<"i">>), Name("function"), Text(<<"n">>), Undefined),
      ToolCallDelta(0, Text(<<"j">>), Undefined, Undefined, Text(<<"a">>)),
      ToolCallDelta(0, Undefined, Undefined, Text(<<"m">>), Text(<<"b">>)),
      ToolCallDelta(1, Text(<<"i">>), Undefined, Text(<<"n">>), Text(<<"a">>)),
      ToolCallDelta(1, Undefined, Undefined, Undefined, Text(<<"b">>)) }

\* an upstream event whose delta carries tool_calls: [fragment]
ToolCallsEvent(fragment) ==
    MessageEvent(Data(Choice([ js |-> "object", role |-> Undefined,
                               reasoning_content |-> Undefined,
                               content |-> Undefined,
                               tool_calls |-> << fragment >> ], Null),
                      Undefined, Undefined))

\* upstream events of the stream
ToolEvents ==
    { ToolCallsEvent(f) : f \in ToolCallDeltas }
    \cup { AnswerEvent(<<"a">>), DoneEvent }

ToolTransformDelta(ev) == Len(calls) < MaxToolCalls /\ TransformDelta(ev)

AddToolCallDelta(toolCallDelta) ==
    /\ Len(calls) < MaxToolCalls
    /\ AccCall("addToolCallDelta", toolCallDelta,
               Res(addToolCallDelta(acc, toolCallDelta), FALSE))

NextTools ==
    \/ \E ev \in ToolEvents : ToolTransformDelta(ev)
    \/ \E f \in ToolCallDeltas : AddToolCallDelta(f)

SpecTools == Init /\ [][NextTools]_vars

---------------------------------------------------------------------------
(* The parser fed with the chunks of one connection *)

\* data: {"a":1} and a blank line
WireObject ==
    <<"d", "a", "t", "a", ":", " ", "{", "\"", "a", "\"", ":", "1", "}", "\n", "\n">>

\* data: "\u00e9" in UTF-8 and a blank line
WireAccent ==
    <<"d", "a", "t", "a", ":", " ", "\"", "C3", "A9", "\"", "\n", "\n">>

\* a valid line, then the sentinel
WireDone ==
    <<"d", "a", "t", "a", ":", " ", "1", "\n", "d", "a", "t", "a", ":", " ", "[", "D", "O", "N", "E", "]", "\n">>

\* a malformed line between two valid ones
WireMalformed ==
    <<"d", "a", "t", "a", ":", " ", "1", "\n", "d", "a", "t", "a", ":", " ", "{", "\n", "d", "a", "t", "a", ":", " ", "1", "1", "\n">>

\* event: and id: lines, then two data lines
WireNamed ==
    <<"e", "v", "e", "n", "t", ":", " ", "x", "\n", "i", "d", ":", " ", "a", "\n", "d", "a", "t", "a", ":", " ", "1", "\n", "d", "a", "t", "a", ":", " ", "1", "\n">>

\* the sentinel, then a valid line
WireDoneFirst ==
    <<"d", "a", "t", "a", ":", " ", "[", "D", "O", "N", "E", "]", "\n", "d", "a", "t", "a", ":", " ", "1", "1", "\n">>

Wires ==
    {WireObject, WireAccent, WireDone, WireMalformed, WireNamed, WireDoneFirst}

InitParser ==
    /\ acc = DeltaAccumulator([maxBlocks |-> Num(MaxBlocks),
                               maxBufferSize |-> Num(MaxBuffer)])
    /\ calls = <<>>
    /\ ret = <<>>
    /\ threw = FALSE
    /\ out = <<>>
    /\ aborted = FALSE
    /\ parser = SSEParser([maxBufferSize |-> Num(MaxParserBuffer)])
    /\ wire \in Wires
    /\ encoding \in {"buffer", "utf8"}
    /\ pcalls = <<>>
    /\ pret = <<>>
    /\ pthrew = FALSE
    /\ pout = <<>>
    /\ peer = NewStream
    /\ buffered = NoBufferedCall

\* a read may end between any two bytes; with an encoding set on the
\* stream a chunk is a string and ends between two characters
CutAllowed(n) ==
    encoding = "utf8" => ~(wire[n] = "C3" /\ n < Len(wire) /\ wire[n + 1] = "A9")

ChunkOf(bytes) ==
    IF encoding = "utf8" THEN Text(Utf8Decode(bytes)) ELSE BufferChunk(bytes)

\* stream.on('data', chunk => parser.parse(chunk)) with the next n bytes
Parse(n) ==
    /\ Len(pcalls) < MaxParserCalls
    /\ CutAllowed(n)
    /\ LET chunk == ChunkOf(SubSeq(wire, 1, n))
           r == parse(parser, chunk)
       IN /\ parser' = r.parser
          /\ pret' = r.events
          /\ pthrew' = r.threw
          /\ pout' = pout \o r.events
          /\ pcalls' = Append(pcalls, [op |-> "parse", arg |-> chunk])
    /\ wire' = SubSeq(wire, n + 1, Len(wire))
    /\ UNCHANGED <<encoding, accVars, peer, buffered>>

Reset ==
    /\ Len(pcalls) < MaxParserCalls
    /\ parser' = reset(parser)
    /\ pret' = <<>>
    /\ pthrew' = FALSE
    /\ pcalls' = Append(pcalls, [op |-> "reset", arg |-> Text(<<>>)])
    /\ UNCHANGED <<wire, encoding, pout, accVars, peer, buffered>>

NextParser ==
    \/ \E n \in 1..Len(wire) : Parse(n)
    \/ Reset

SpecParser == InitParser /\ [][NextParser]_vars

---------------------------------------------------------------------------
(* Helpers of the properties *)

Last(seq) == seq[Len(seq)]

\* the events of seq named name, in order
Named(seq, name) == SelectSeq(seq, LAMBDA e : e.event = name)

\* a call that runs Finalize: finalizeDelta itself, or the sentinel
IsFinalizeCall(c) ==
    \/ c.op = "finalizeDelta"
    \/ c.op = "transformDelta" /\ c.arg.event = EvDone

\* a call has just been made in this step
Called == calls' # calls

OpenBlocks(a) ==
    { i \in 1..Len(a.contentBlocks) :
        a.contentBlocks[i].started /\ ~a.contentBlocks[i].stopped }

---------------------------------------------------------------------------
(* C1 *)

\* C1: Finalize is idempotent.  Once the accumulator is finalized, a later
\* Finalize (finalizeDelta called directly, or a 'done' event passed to
\* transformDelta) returns no event and changes no field of the accumulator.
C1_FinalizeIdempotent ==
    [][ (acc.finalized /\ Called /\ IsFinalizeCall(Last(calls')))
            => (ret' = <<>> /\ ~threw' /\ acc' = acc /\ out' = out) ]_vars

\* a second Finalize has run, through the sentinel, after an earlier one
C1_Witness ==
    /\ Len(calls) >= 2
    /\ Last(calls).op = "transformDelta" /\ Last(calls).arg.event = EvDone
    /\ \E i \in 1..(Len(calls) - 1) : calls[i].op = "finalizeDelta"
    /\ acc.finalized /\ ret = <<>>

---------------------------------------------------------------------------
(* C2 *)

\* C2: before Finalize at most one content block is open (started and not
\* stopped), whatever the order of reasoning and answer deltas.
C2_ExclusiveOpenBlock == ~acc.finalized => Cardinality(OpenBlocks(acc)) <= 1

---------------------------------------------------------------------------
(* C3 *)

\* C3: on a stream not aborted by a resource-limit error the
\* content_block_start events carry the indices 0, 1, 2, ... in emission
\* order, and startBlock gives the i-th block created the index i - 1.
C3_MonotonicIndices ==
    ~aborted =>
        LET starts == Named(out, "content_block_start") IN
        /\ Len(starts) = Len(acc.contentBlocks)
        /\ \A k \in 1..Len(starts) : starts[k].index = k - 1
        /\ \A k \in 1..Len(acc.contentBlocks) : acc.contentBlocks[k].index = k - 1

\* two blocks have been started on a stream that was not aborted
C3_Witness ==
    /\ ~aborted
    /\ Len(Named(out, "content_block_start")) >= 2

---------------------------------------------------------------------------
(* C4 *)

\* C4: when a Text block's content_block_start is emitted, every Thinking
\* block started before it has already had its signature_delta and, right
\* after it, its content_block_stop emitted, and is marked stopped.
C4_ReasoningClosedBeforeText ==
    \A p \in 1..Len(out) :
        (out[p].event = "content_block_start" /\ out[p].type = "text") =>
            \A q \in 1..(p - 1) :
                (out[q].event = "content_block_start" /\ out[q].type = "thinking") =>
                    /\ \E r \in (q + 1)..(p - 2) :
                          /\ out[r].event = "signature_delta"
                          /\ out[r].index = out[q].index
                          /\ out[r + 1].event = "content_block_stop"
                          /\ out[r + 1].index = out[q].index
                    /\ acc.contentBlocks[out[q].index + 1].stopped

\* reasoning text, then answer text: a Text block started after a Thinking one
C4_Witness ==
    \E p \in 1..Len(out) : \E q \in 1..(p - 1) :
        /\ out[p].event = "content_block_start" /\ out[p].type = "text"
        /\ out[q].event = "content_block_start" /\ out[q].type = "thinking"

---------------------------------------------------------------------------
(* C5 *)

RECURSIVE Flatten(_)
\* the concatenation of a sequence of strings
Flatten(ss) == IF ss = <<>> THEN <<>> ELSE Head(ss) \o Flatten(Tail(ss))

IsCall(c, events) == c.op = "transformDelta" /\ c.arg \in events

\* the stream so far is k reasoning deltas, m answer deltas, finish reason
\* 'stop', the sentinel
ScenarioA(k, m) ==
    /\ Len(calls) = k + m + 2
    /\ \A i \in 1..k : IsCall(calls[i], { ReasoningEvent(t) : t \in Texts })
    /\ \A i \in (k + 1)..(k + m) : IsCall(calls[i], { AnswerEvent(t) : t \in Texts })
    /\ IsCall(calls[k + m + 1], { FinishEvent("stop") })
    /\ IsCall(calls[k + m + 2], { DoneEvent })

ExpectedA(k, m) ==
    LET rs == [i \in 1..k |-> calls[i].arg.data.choice0.delta.reasoning_content.v]
        cs == [i \in 1..m |-> calls[k + i].arg.data.choice0.delta.content.v]
    IN << [event |-> "message_start", role |-> Name("assistant"),
           model |-> Name("glm-4.6"), input_tokens |-> 0, output_tokens |-> 0],
          [event |-> "content_block_start", index |-> 0, type |-> "thinking"] >>
       \o [i \in 1..k |-> [event |-> "content_block_delta", index |-> 0,
                            type |-> "thinking_delta", text |-> rs[i]]]
       \o << [event |-> "signature_delta", index |-> 0,
               signature |-> [type |-> "thinking_signature",
                              hash |-> Digest(Flatten(rs)),
                              length |-> Len(Flatten(rs))]],
              [event |-> "content_block_stop", index |-> 0],
              [event |-> "content_block_start", index |-> 1, type |-> "text"] >>
       \o [i \in 1..m |-> [event |-> "content_block_delta", index |-> 1,
                            type |-> "text_delta", text |-> cs[i]]]
       \o << [event |-> "content_block_stop", index |-> 1],
              [event |-> "message_delta", stop_reason |-> Name("end_turn"),
               output_tokens |-> 0],
              [event |-> "message_stop"] >>

\* C5: reasoning deltas, then answer deltas, then finish reason 'stop', then
\* the sentinel produce exactly message_start, content_block_start(thinking,
\* 0), one thinking_delta per reasoning delta, signature_delta(0),
\* content_block_stop(0), content_block_start(text, 1), one text_delta per
\* answer delta, content_block_stop(1), message_delta(end_turn), message_stop.
C5_ScenarioA ==
    \A k \in 1..MaxCalls : \A m \in 1..MaxCalls :
        ScenarioA(k, m) => out = ExpectedA(k, m)

\* the scenario has run to its end with two reasoning deltas
C5_Witness == \E m \in 1..MaxCalls : ScenarioA(2, m)

---------------------------------------------------------------------------
(* C6 *)

\* C6: on a stream with no resource-limit error the first Finalize returns
\* events that end with one message_delta followed by one message_stop, and
\* over the whole stream each of the two is emitted exactly once.
C6_WellFormedClose ==
    /\ [](~aborted =>
            /\ Len(Named(out, "message_delta")) = (IF acc.finalized THEN 1 ELSE 0)
            /\ Len(Named(out, "message_stop")) = (IF acc.finalized THEN 1 ELSE 0))
    /\ [][ (~acc.finalized /\ Called /\ IsFinalizeCall(Last(calls')))
              => /\ acc'.finalized /\ ~threw'
                 /\ Len(ret') >= 2
                 /\ ret'[Len(ret') - 1].event = "message_delta"
                 /\ ret'[Len(ret')].event = "message_stop"
                 /\ Len(Named(ret', "message_delta")) = 1
                 /\ Len(Named(ret', "message_stop")) = 1 ]_vars

\* a stream closed by the caller after content, then fed the sentinel
C6_Witness ==
    /\ ~aborted /\ acc.finalized
    /\ Len(acc.contentBlocks) > 0
    /\ Len(calls) >= 3
    /\ calls[Len(calls) - 1].op = "finalizeDelta"
    /\ Last(calls).op = "transformDelta" /\ Last(calls).arg.event = EvDone
    /\ Len(Named(out, "message_stop")) = 1

---------------------------------------------------------------------------
(* C7 *)

\* the fixed table of the stop reasons
StopReasonTable(finishReason) ==
    IF finishReason.js # "name" THEN "end_turn"
    ELSE CASE finishReason.v = "stop"           -> "end_turn"
           [] finishReason.v = "length"         -> "max_tokens"
           [] finishReason.v = "tool_calls"     -> "tool_use"
           [] finishReason.v = "content_filter" -> "stop_sequence"
           [] OTHER                             -> "end_turn"

\* C7: the stop_reason of Finalize's message_delta is the table's value for
\* the finish reason recorded on the accumulator: stop gives end_turn,
\* length max_tokens, tool_calls tool_use, content_filter stop_sequence, any
\* other value or none end_turn.
C7_StopReasonMapping ==
    (calls # <<>> /\ IsFinalizeCall(Last(calls)) /\ ret # <<>>) =>
        ret[Len(ret) - 1].stop_reason = Name(StopReasonTable(acc.finishReason))

---------------------------------------------------------------------------
(* C8 *)

\* C8: addDelta on an open Thinking or Text block raises exactly when the
\* block's content length plus the delta's length exceeds maxBufferSize; a
\* call that raises changes nothing, one that does not appends the delta;
\* and every block's content is never longer than maxBufferSize.
C8_BufferBound ==
    /\ [](\A i \in 1..Len(acc.contentBlocks) :
            Len(acc.contentBlocks[i].content) <= acc.maxBufferSize)
    /\ [][ (/\ Called /\ Last(calls').op = "addDelta"
            /\ HasCurrentBlock(acc)
            /\ getCurrentBlock(acc).type \in {"thinking", "text"}
            /\ getCurrentBlock(acc).started /\ ~getCurrentBlock(acc).stopped)
              => LET before == getCurrentBlock(acc).content
                     delta  == Last(calls').arg
                 IN /\ threw' <=> (Len(before) + Len(delta) > acc.maxBufferSize)
                    /\ threw' => acc' = acc
                    /\ ~threw' => getCurrentBlock(acc').content = before \o delta ]_vars

\* a block filled to exactly maxBufferSize has rejected one more delta
C8_Witness ==
    /\ calls # <<>> /\ Last(calls).op = "addDelta" /\ threw
    /\ HasCurrentBlock(acc) /\ ~getCurrentBlock(acc).stopped
    /\ Len(getCurrentBlock(acc).content) = acc.maxBufferSize

---------------------------------------------------------------------------
(* C9 *)

\* C9: startBlock raises exactly when the number of recorded blocks equals
\* maxBlocks, a call that raises leaves the block list and the open-block
\* index unchanged, and the block count never exceeds maxBlocks.
C9_BlockBound ==
    /\ [](Len(acc.contentBlocks) <= acc.maxBlocks)
    /\ [][ (Called /\ Last(calls').op = "startBlock")
              => /\ threw' <=> (Len(acc.contentBlocks) = acc.maxBlocks)
                 /\ threw' => /\ acc'.contentBlocks = acc.contentBlocks
                              /\ acc'.currentBlockIndex = acc.currentBlockIndex
                 /\ ~threw' => Len(acc'.contentBlocks) = Len(acc.contentBlocks) + 1 ]_vars

\* the (maxBlocks + 1)-th startBlock has raised and maxBlocks blocks remain
C9_Witness ==
    /\ calls # <<>> /\ Last(calls).op = "startBlock" /\ threw
    /\ Len(SelectSeq(calls, LAMBDA c : c.op = "startBlock")) = acc.maxBlocks + 1
    /\ Len(acc.contentBlocks) = acc.maxBlocks

RECURSIVE Utf8Encode(_)
\* the bytes of a string
Utf8Encode(str) ==
    IF str = <<>> THEN <<>>
    ELSE IF Head(str) = "U+00E9" THEN <<"C3", "A9">> \o Utf8Encode(Tail(str))
    ELSE IF Head(str) = "U+FFFD" THEN <<"EF", "BF", "BD">> \o Utf8Encode(Tail(str))
    ELSE <<Head(str)>> \o Utf8Encode(Tail(str))

\* the bytes a parse call was given
ChunkBytes(chunk) ==
    IF chunk.js = "buffer" THEN chunk.bytes ELSE Utf8Encode(chunk.v)

\* bytes is one complete 'data:' line with a valid payload and its newline
IsValidDataLine(bytes) ==
    /\ bytes # <<>>
    /\ bytes[Len(bytes)] = "\n"
    /\ \A i \in 1..(Len(bytes) - 1) : bytes[i] # "\n"
    /\ LET line == Utf8Decode(SubSeq(bytes, 1, Len(bytes) - 1))
       IN /\ startsWith(line, PrefixData)
          /\ substring(line, 6) # DoneMarker
          /\ JSONParse(substring(line, 6)) # SyntaxError

\* the payload of the unsplit line
LinePayload(bytes) ==
    JSONParse(substring(Utf8Decode(SubSeq(bytes, 1, Len(bytes) - 1)), 6))

\* the first two calls were parse calls that split one valid data line
SplitLineFed ==
    /\ Len(pcalls) = 2
    /\ pcalls[1].op = "parse" /\ pcalls[2].op = "parse"
    /\ IsValidDataLine(ChunkBytes(pcalls[1].arg) \o ChunkBytes(pcalls[2].arg))

(* C10: when a single 'data:' line carrying a valid payload is split at any
   position across two consecutive parse calls, the first call returns no
   event for it and the second call returns exactly one event whose payload
   equals the payload of the unsplit line. *)
C10_SplitLineReassembled ==
    SplitLineFed =>
        /\ Len(pret) = 1
        /\ pout = pret
        /\ pret[1].data =
              LinePayload(ChunkBytes(pcalls[1].arg) \o ChunkBytes(pcalls[2].arg))

---------------------------------------------------------------------------
(* C11 *)

\* the connection has only seen parse calls (the parser was not reset)
OnlyParsed == \A i \in 1..Len(pcalls) : pcalls[i].op = "parse"

RECURSIVE TextFed(_)
\* the text the parse calls of a history received, chunk by chunk
TextFed(history) ==
    IF history = <<>> THEN <<>>
    ELSE (IF Head(history).op = "parse" THEN toString(Head(history).arg) ELSE <<>>)
         \o TextFed(Tail(history))

IsSentinelLine(line) == line = PrefixData \o DoneMarker

\* a 'data:' line with a valid payload
IsPayloadLine(line) ==
    /\ startsWith(line, PrefixData)
    /\ ~IsSentinelLine(line)
    /\ JSONParse(substring(line, 6)) # SyntaxError

(* C11: each complete 'data: [DONE]' line makes parse return exactly one
   event named 'done' with null payload, at its place among the events of
   the valid lines; the text after the last newline stays in the carry-over
   buffer whatever the lines before it were, and every valid line, also one
   completed by a later chunk than the one that brought the sentinel,
   yields its own payload. *)
C11_SentinelKeepsPartialLine ==
    (OnlyParsed /\ ~pthrew) =>
        LET lines == split(TextFed(pcalls), "\n")
            emitting == SelectSeq(SubSeq(lines, 1, Len(lines) - 1),
                            LAMBDA l : IsSentinelLine(l) \/ IsPayloadLine(l))
        IN /\ Len(pout) = Len(emitting)
           /\ \A i \in 1..Len(emitting) :
                 IF IsSentinelLine(emitting[i])
                 THEN pout[i].event = EvDone /\ pout[i].data = Null
                 ELSE /\ pout[i].event # EvDone
                      /\ pout[i].data = JSONParse(substring(emitting[i], 6))
           /\ parser.buffer = lines[Len(lines)]

\* the sentinel was returned by one call while the start of the next line
\* was carried over, and a later call returned that line's payload
C11_Witness ==
    /\ Len(pout) = 2
    /\ pout[1].event = EvDone /\ pout[1].data = Null
    /\ pout[2].data = Num(11)
    /\ pret = << pout[2] >>
    /\ \E i \in 1..Len(pcalls) :
          pcalls[i].op = "parse" /\ Len(ChunkBytes(pcalls[i].arg)) > Len(PrefixData \o DoneMarker) + 1
    /\ \A i \in 1..Len(pcalls) : pcalls[i].op = "parse"

---------------------------------------------------------------------------
(* C12 *)

RECURSIVE FedBytes(_)
\* the bytes the parse calls of a history were given, in order
FedBytes(history) ==
    IF history = <<>> THEN <<>>
    ELSE (IF Head(history).op = "parse" THEN ChunkBytes(Head(history).arg) ELSE <<>>)
         \o FedBytes(Tail(history))

\* the complete lines of the bytes fed so far that carry the sentinel or a
\* valid payload
EmittingLinesFed ==
    LET lines == split(Utf8Decode(FedBytes(pcalls)), "\n")
    IN SelectSeq(SubSeq(lines, 1, Len(lines) - 1),
                 LAMBDA l : IsSentinelLine(l) \/ IsPayloadLine(l))

(* C12: on one connection a 'data:' line whose payload is not valid JSON
   produces no event and does not advance the sequence counter, and the
   lines after it are parsed: the events returned so far carry the indices
   1, 2, 3, ... in emission order across parse calls ('done' events
   included), the counter equals their number, and once all lines have been
   read without error there is exactly one event per valid line. *)
C12_MalformedDropped ==
    OnlyParsed =>
        /\ parser.eventCount = Len(pout)
        /\ \A i \in 1..Len(pout) :
              pout[i].index = Num(i) /\ pout[i].data # SyntaxError
        /\ (wire = <<>> /\ ~pthrew) => Len(pout) = Len(EmittingLinesFed)

\* a valid line, a malformed line and a valid line were read in at least
\* two calls: two events, indexed 1 and 2
C12_Witness ==
    /\ OnlyParsed /\ Len(pcalls) >= 2
    /\ FedBytes(pcalls) = WireMalformed
    /\ wire = <<>> /\ ~pthrew
    /\ Len(pout) = 2
    /\ pout[1].data = Num(1) /\ pout[2].data = Num(11) /\ pout[2].index = Num(2)

---------------------------------------------------------------------------
(* C13 *)

\* a parse call has just been made
ParseCalled == pcalls' # pcalls /\ Last(pcalls').op = "parse"

(* C13: parse raises a resource-limit error exactly when the text carried
   over from the calls before plus the newly received chunk is longer than
   maxBufferSize, which is 1 MiB unless the option is given; after a parse
   call that returns normally the carry-over buffer is no longer than
   maxBufferSize. *)
C13_ParserBufferBound ==
    [][ ParseCalled =>
          /\ pthrew' <=>
                (Len(parser.buffer) + Len(toString(Last(pcalls').arg))
                    > parser.maxBufferSize)
          /\ pthrew' => pret' = <<>>
          /\ ~pthrew' => Len(parser'.buffer) <= parser'.maxBufferSize
          /\ parser'.maxBufferSize = MaxParserBuffer
          /\ SSEParser([maxBufferSize |-> Undefined]).maxBufferSize = 1024 * 1024
      ]_vars

\* a first call returned normally and left a partial line; with the second
\* chunk the text is one character over the limit and parse raised
C13_Witness ==
    /\ Len(pcalls) = 2 /\ OnlyParsed
    /\ Len(toString(pcalls[1].arg)) <= MaxParserBuffer
    /\ Len(toString(pcalls[2].arg)) <= MaxParserBuffer
    /\ pthrew
    /\ Len(parser.buffer) = MaxParserBuffer + 1

---------------------------------------------------------------------------
(* C14 *)

RECURSIVE Alone(_)
\* the stream obtained by feeding a history of upstream events, alone, to a
\* transformer with a fresh accumulator
Alone(history) ==
    IF history = <<>> THEN NewStream
    ELSE LET before == Alone(SubSeq(history, 1, Len(history) - 1))
             r == transformDelta(Last(history).arg, before.acc)
         IN [ acc     |-> r.acc,
              calls   |-> history,
              ret     |-> r.events,
              threw   |-> r.threw,
              out     |-> before.out \o r.events,
              aborted |-> r.threw ]

(* C14: when two streams, each with its own accumulator, are driven in any
   interleaving through one transformer, the events emitted for each stream
   and its accumulator equal those obtained by processing that stream's
   upstream events alone; a resource-limit error raised for one stream
   leaves the other stream's state and output as they were. *)
C14_StreamIsolation ==
    /\ [](Self = Alone(calls) /\ peer = Alone(peer.calls))
    /\ [][ (calls' # calls => peer' = peer) /\ (peer' # peer => Self' = Self) ]_vars

\* one stream was aborted by a resource-limit error while the other one,
\* driven in between, has been finalized with its blocks emitted
C14_Witness ==
    /\ aborted /\ Len(calls) = MaxPeerCalls
    /\ ~peer.aborted /\ peer.acc.finalized
    /\ Len(peer.calls) = MaxPeerCalls
    /\ Len(Named(peer.out, "content_block_stop")) = 2

---------------------------------------------------------------------------
(* C15 *)

\* the upstream event has a first choice with a delta object
CarriesDelta(ev) ==
    /\ ev.event # EvDone
    /\ Truthy(ev.data)
    /\ Truthy(ev.data.choice0)
    /\ Truthy(ev.data.choice0.delta)

\* events of the content blocks
BlockEventNames ==
    {"content_block_start", "content_block_delta", "signature_delta",
     "content_block_stop"}

(* C15: message_start is emitted at most once per stream; the call for the
   first upstream event that carries a delta returns it as its first event
   (unless that call raises a resource-limit error and returns nothing); it
   precedes every content_block_start, content_block_delta, signature_delta
   and content_block_stop of the stream; it reports zero input and zero
   output tokens. *)
C15_MessageStartOnce ==
    /\ [](/\ Len(Named(out, "message_start")) <= 1
          /\ \A p \in 1..Len(out) :
                /\ out[p].event \in BlockEventNames =>
                      \E q \in 1..(p - 1) : out[q].event = "message_start"
                /\ out[p].event = "message_start" =>
                      out[p].input_tokens = 0 /\ out[p].output_tokens = 0)
    /\ [][ (/\ Called
            /\ Last(calls').op = "transformDelta"
            /\ CarriesDelta(Last(calls').arg)
            /\ \A i \in 1..Len(calls) : ~CarriesDelta(calls[i].arg)
            /\ ~threw')
           => (/\ ret' # <<>>
               /\ ret'[1].event = "message_start"
               /\ Len(Named(out, "message_start")) = 0) ]_vars

\* an event without a delta, then a first delta that also carries usage,
\* then answer text: message_start came first and reports zero tokens
\* although the accumulator holds the usage
C15_Witness ==
    /\ Len(calls) = 3
    /\ calls[1].arg.event # EvDone /\ ~CarriesDelta(calls[1].arg)
    /\ CarriesDelta(calls[2].arg)
    /\ acc.inputTokens = 3
    /\ out[1].event = "message_start" /\ out[1].input_tokens = 0
    /\ Len(Named(out, "content_block_start")) = 1

---------------------------------------------------------------------------
(* C16 *)

\* the call passed an upstream event whose delta carries a role
CarriesRole(c) ==
    /\ c.op = "transformDelta"
    /\ CarriesDelta(c.arg)
    /\ Truthy(c.arg.data.choice0.delta.role)

RoleOf(c) == c.arg.data.choice0.delta.role

(* C16: a role carried by a delta is recorded on the accumulator and is the
   role reported in the message_start payload, including when the role
   arrives in the first delta of the stream; a role that arrives after
   message_start is recorded but causes no further event. *)
C16_RoleInMessageStart ==
    /\ [](\A i \in 1..Len(calls) :
            CarriesRole(calls[i]) =>
              /\ (\A j \in (i + 1)..Len(calls) : ~CarriesRole(calls[j]))
                    => acc.role = RoleOf(calls[i])
              /\ (\A j \in 1..(i - 1) : ~CarriesDelta(calls[j].arg))
                    => /\ Named(out, "message_start") # <<>>
                       /\ Named(out, "message_start")[1].role = RoleOf(calls[i]))
    /\ [][ (Called /\ CarriesRole(Last(calls')) /\ acc.messageStarted)
             => Named(ret', "message_start") = <<>> ]_vars

---------------------------------------------------------------------------
(* C17 *)

\* the call passed an upstream payload that carries usage
CarriesUsage(c) ==
    /\ c.op = "transformDelta"
    /\ Truthy(c.arg.data)
    /\ Truthy(c.arg.data.usage)

\* the counts <<input, output>> a usage payload of the streams states
UsageCounts(usage) ==
    IF usage = UsageOpenAI THEN <<1, 2>> ELSE <<3, 4>>

\* the output-token count of the last usage payload of a history, 0 if none
RECURSIVE LastOutputCount(_)
LastOutputCount(history) ==
    IF history = <<>> THEN 0
    ELSE IF CarriesUsage(Last(history))
    THEN UsageCounts(Last(history).arg.data.usage)[2]
    ELSE LastOutputCount(SubSeq(history, 1, Len(history) - 1))

(* C17: whenever an upstream payload carries usage, transformDelta stores
   the normalized counts in the accumulator and returns the events it would
   return for the same payload without usage; Finalize's message_delta
   carries the output-token count of the last usage payload received on
   the stream. *)
C17_UsageStored ==
    [][ Called =>
          /\ (CarriesUsage(Last(calls')) /\ ~threw') =>
                /\ acc'.inputTokens = UsageCounts(Last(calls').arg.data.usage)[1]
                /\ acc'.outputTokens = UsageCounts(Last(calls').arg.data.usage)[2]
                /\ ret' = transformDelta(
                             [Last(calls').arg EXCEPT !.data.usage = Undefined],
                             acc).events
          /\ (IsFinalizeCall(Last(calls')) /\ ~acc.finalized) =>
                /\ Len(Named(ret', "message_delta")) = 1
                /\ Named(ret', "message_delta")[1].output_tokens
                      = LastOutputCount(calls)
      ]_vars

---------------------------------------------------------------------------
(* C18 *)

(* C18: updateUsage accepts the {prompt_tokens, completion_tokens} and the
   {input_tokens, output_tokens} naming: after the call inputTokens and
   outputTokens equal the supplied counts, and no other field of the
   accumulator (blocks, open index, buffers, flags, finish reason) has
   changed. *)
C18_UpdateUsage ==
    [][ (Called /\ Last(calls').op = "updateUsage") =>
          /\ ~threw'
          /\ acc' = [acc EXCEPT
                        !.inputTokens  = UsageCounts(Last(calls').arg)[1],
                        !.outputTokens = UsageCounts(Last(calls').arg)[2]]
      ]_vars

\* with a block open, usage in the first naming was replaced by usage in
\* the second naming
C18_Witness ==
    /\ Len(calls) >= 3
    /\ Last(calls).op = "updateUsage" /\ Last(calls).arg = UsageAnthropic
    /\ \E i \in 1..(Len(calls) - 1) :
          calls[i].op = "updateUsage" /\ calls[i].arg = UsageOpenAI
    /\ acc.inputTokens = 3 /\ acc.outputTokens = 4
    /\ OpenBlocks(acc) # {}

---------------------------------------------------------------------------
(* C19 *)

\* the positions of out holding an event named name for block index
PositionsOf(name, index) ==
    { p \in 1..Len(out) : out[p].event = name /\ out[p].index = index }

(* C19: on a stream not aborted by a resource-limit error a signature_delta
   is emitted only for Thinking blocks, exactly once per closed Thinking
   block and with that block's index, and the next event is that block's
   content_block_stop, whether the block was closed by the transition to
   answer text or by Finalize; the content_block_stop of a Text block is
   not preceded by a signature_delta. *)
C19_SignatureBeforeStop ==
    ~aborted =>
        /\ \A p \in 1..Len(out) :
              out[p].event = "signature_delta" =>
                /\ acc.contentBlocks[out[p].index + 1].type = "thinking"
                /\ p < Len(out)
                /\ out[p + 1].event = "content_block_stop"
                /\ out[p + 1].index = out[p].index
        /\ \A k \in 1..Len(acc.contentBlocks) :
              LET block == acc.contentBlocks[k] IN
              /\ Cardinality(PositionsOf("content_block_stop", block.index))
                    = (IF block.stopped THEN 1 ELSE 0)
              /\ Cardinality(PositionsOf("signature_delta", block.index))
                    = (IF block.stopped /\ block.type = "thinking" THEN 1 ELSE 0)
              /\ block.type # "thinking" =>
                    \A p \in PositionsOf("content_block_stop", block.index) :
                        p > 1 /\ out[p - 1].event # "signature_delta"

\* a Thinking block was closed by the transition to answer text and the
\* Text block after it by Finalize
C19_Witness ==
    /\ ~aborted /\ acc.finalized
    /\ Len(acc.contentBlocks) = 2
    /\ acc.contentBlocks[1].type = "thinking" /\ acc.contentBlocks[1].stopped
    /\ acc.contentBlocks[2].type = "text" /\ acc.contentBlocks[2].stopped
    /\ PositionsOf("signature_delta", 0) # {}
    /\ PositionsOf("content_block_stop", 1) # {}

---------------------------------------------------------------------------
(* C20 *)

\* the concatenation of the thinking deltas emitted for block index before
\* position p of out
ThinkingTextBefore(p, index) ==
    LET deltas == SelectSeq(SubSeq(out, 1, p - 1),
                      LAMBDA e : /\ e.event = "content_block_delta"
                                 /\ e.type = "thinking_delta"
                                 /\ e.index = index)
    IN Flatten([i \in 1..Len(deltas) |-> deltas[i].text])

(* C20: the signature emitted when a Thinking block closes is computed over
   the block's full accumulated text: its length field equals the total
   length of the thinking deltas emitted for that block index up to the
   close, and its hash is the digest of the concatenation of those deltas,
   so blocks with equal text get equal hashes. *)
C20_SignatureOverFullText ==
    \A p \in 1..Len(out) :
        out[p].event = "signature_delta" =>
            /\ out[p].signature.type = "thinking_signature"
            /\ out[p].signature.length
                  = Len(ThinkingTextBefore(p, out[p].index))
            /\ out[p].signature.hash
                  = Digest(ThinkingTextBefore(p, out[p].index))

\* a Thinking block that received two deltas has been closed
C20_Witness ==
    \E p \in 1..Len(out) :
        /\ out[p].event = "signature_delta"
        /\ out[p].signature.length = 3
        /\ Cardinality({ q \in 1..(p - 1) :
                            /\ out[q].event = "content_block_delta"
                            /\ out[q].index = out[p].index }) = 2

---------------------------------------------------------------------------
(* C21 *)

\* the call brought a tool-call fragment: addToolCallDelta, or transformDelta
\* with a delta that carries tool_calls
IsToolCallsEvent(ev) == ev \in { ToolCallsEvent(f) : f \in ToolCallDeltas }

BringsFragment(c) ==
    \/ c.op = "addToolCallDelta"
    \/ c.op = "transformDelta" /\ IsToolCallsEvent(c.arg)

FragmentOf(c) ==
    IF c.op = "addToolCallDelta" THEN c.arg
    ELSE c.arg.data.choice0.delta.tool_calls[1]

\* the string a fragment carries under a key, empty if it has none
Piece(x) == IF Truthy(x) THEN x.v ELSE <<>>

RECURSIVE Concatenated(_, _)
\* id, name and arguments of the fragments a history brought for a call
\* index, each concatenated in arrival order
Concatenated(history, index) ==
    IF history = <<>> THEN [id |-> <<>>, name |-> <<>>, arguments |-> <<>>]
    ELSE LET before == Concatenated(SubSeq(history, 1, Len(history) - 1), index)
             c == Last(history)
         IN IF BringsFragment(c) /\ FragmentOf(c).index = index
            THEN [ id        |-> before.id \o Piece(FragmentOf(c).id),
                   name      |-> before.name \o Piece(FragmentOf(c).function.name),
                   arguments |-> before.arguments
                                   \o Piece(FragmentOf(c).function.arguments) ]
            ELSE before

\* the call indices of the fragments received so far
IndicesReceived ==
    { FragmentOf(calls[i]).index : i \in { j \in 1..Len(calls) : BringsFragment(calls[j]) } }

(* C21: a delta carrying tool-call fragments causes no content_block_start,
   content_block_delta or content_block_stop event; the fragments are
   accumulated per call index: after any sequence of fragments there is one
   entry per distinct call index, and each entry holds the concatenation,
   in arrival order, of the id, name and argument fragments received for
   that index. *)
C21_ToolCallFragments ==
    /\ [](/\ Len(acc.toolCalls) = Cardinality(IndicesReceived)
          /\ \A index \in IndicesReceived :
                \E k \in 1..Len(acc.toolCalls) :
                    /\ acc.toolCalls[k].index = index
                    /\ acc.toolCalls[k].id = Concatenated(calls, index).id
                    /\ acc.toolCalls[k].name = Concatenated(calls, index).name
                    /\ acc.toolCalls[k].arguments
                          = Concatenated(calls, index).arguments)
    /\ [][ (Called /\ Last(calls').op = "transformDelta"
                   /\ IsToolCallsEvent(Last(calls').arg))
             => \A p \in 1..Len(ret') :
                   ret'[p].event \notin {"content_block_start",
                                         "content_block_delta",
                                         "content_block_stop"} ]_vars

---------------------------------------------------------------------------
(* C22 *)

(* C22: stopped is terminal: once a block's stopped flag is true it never
   becomes false again, and no later operation (startBlock, addDelta,
   stopCurrentBlock, transformDelta, Finalize) changes that block's
   content. *)
C22_StoppedIsTerminal ==
    [][ \A k \in 1..Len(acc.contentBlocks) :
          acc.contentBlocks[k].stopped =>
            /\ Len(acc'.contentBlocks) >= k
            /\ acc'.contentBlocks[k].stopped
            /\ acc'.contentBlocks[k].content = acc.contentBlocks[k].content ]_vars

---------------------------------------------------------------------------
(* C23 *)

\* the accumulator has an open block: a current block that is not stopped
HasOpenBlock(a) == HasCurrentBlock(a) /\ ~getCurrentBlock(a).stopped

(* C23: addDelta called when there is no open block - no block has been
   started yet, or the current block is already stopped - is a no-op: it
   raises nothing and leaves every block's content and all other state of
   the accumulator unchanged. *)
C23_AddDeltaWithoutOpenBlock ==
    [][ (Called /\ Last(calls').op = "addDelta" /\ ~HasOpenBlock(acc))
          => (~threw' /\ acc' = acc) ]_vars

---------------------------------------------------------------------------
(* The buffered request transform *)

RequestTransformed == buffered.call = "transformRequest"

\* the messages of the request handed to transformRequest
MessagesOf(request) ==
    IF NoProperties(request) \/ request.messages.js # "array" THEN <<>>
    ELSE request.messages.items

IsScanned(msg) ==
    msg.js = "object" /\ msg.role = Name("user") /\ msg.content.js = "text"

\* all scanned text of a list of messages, in scan order
RECURSIVE ScannedText(_)
ScannedText(items) ==
    IF items = <<>> THEN <<>>
    ELSE (IF IsScanned(Head(items)) THEN Head(items).content.v ELSE <<>>)
         \o ScannedText(Tail(items))

\* the lower-cased group of the last tag of a kind in a text, "" if none
LastTag(text, regex) ==
    LET hits == {i \in 1..Len(text) : exec(regex, text[i]) # ""} IN
    IF hits = {} THEN ""
    ELSE toLowerCase(exec(regex, text[CHOOSE i \in hits : \A j \in hits : j <= i]))

\* C24: the directives are taken from the user messages with string content
\* only; for reasoning on/off and for the effort level the last matching tag
\* of all scanned text decides, and without a tag the result is the
\* configured default and effort medium.
C24_LastDirectiveWins ==
    (RequestTransformed /\ ~buffered.result.error) =>
        LET text == ScannedText(MessagesOf(buffered.arg))
            thinkingTag == LastTag(text, "Thinking")
            effortTag == LastTag(text, "Effort")
            config == buffered.result.thinkingConfig
        IN  /\ config.thinking =
                   IF thinkingTag = "" THEN buffered.transformer.defaultThinking
                   ELSE thinkingTag = "on"
            /\ config.effort = IF effortTag = "" THEN "medium" ELSE effortTag

IsTextBlock(block) == block.js = "object" /\ block.type = Name("text")

\* the text blocks of a list of blocks, in their original order
TextBlocks(blocks) == SelectSeq(blocks, IsTextBlock)

\* what the claim requires of the translation of one message
SanitizedAs(msg, translated) ==
    CASE msg.content.js = "text" -> translated = msg
      [] msg.content.js = "array" ->
            LET kept == TextBlocks(msg.content.items) IN
            /\ translated.role = msg.role
            /\ translated.content =
                   IF Len(kept) = 0 THEN Text(<<>>)
                   ELSE IF Len(kept) = 1 THEN kept[1].text
                   ELSE Array(kept)
      [] OTHER -> TRUE

\* C25: in the translated request a message with a list of blocks keeps only
\* its text blocks in order (none: the empty string, one: its bare text, two
\* or more: a list), a message with string content is unchanged, and the
\* messages keep their number and order.
C25_SanitizedMessages ==
    (RequestTransformed /\ ~buffered.result.error) =>
        LET before == MessagesOf(buffered.arg)
            after == buffered.result.openaiRequest.messages
        IN  /\ after.js = "array"
            /\ Len(after.items) = Len(before)
            /\ \A i \in 1..Len(before) : SanitizedAs(before[i], after.items[i])

C25_Witness ==
    /\ RequestTransformed
    /\ ~buffered.result.error
    /\ LET before == MessagesOf(buffered.arg) IN
       /\ Len(before) = 2
       /\ before[1].content.js = "array"
       /\ Len(before[1].content.items) = 2
       /\ Len(TextBlocks(before[1].content.items)) = 0
       /\ before[2].content.js = "array"
       /\ Len(TextBlocks(before[2].content.items)) = 1
       /\ buffered.result.openaiRequest.messages.items[2].content.js = "text"

\* a request on which a step of the translation fails: it is no object, its
\* messages are no list, a message is null, or a block of a list is null
TranslationFails(request) ==
    \/ NoProperties(request)
    \/ Truthy(request.messages) /\ request.messages.js # "array"
    \/ \E i \in 1..Len(MessagesOf(request)) :
          LET msg == MessagesOf(request)[i] IN
          \/ NoProperties(msg)
          \/ /\ msg.content.js = "array"
             /\ \E k \in 1..Len(msg.content.items) :
                    NoProperties(msg.content.items[k])

\* C26: transformRequest never raises; when a step of the translation fails
\* it returns the original request, unmodified, as the request to forward,
\* with a directive config whose thinking flag is false.
C26_RequestNeverRaises ==
    RequestTransformed =>
        /\ "threw" \notin DOMAIN buffered.result
        /\ TranslationFails(buffered.arg) =>
               /\ buffered.result.openaiRequest = buffered.arg
               /\ buffered.result.thinkingConfig.thinking = FALSE

C26_Witness ==
    /\ RequestTransformed
    /\ TranslationFails(buffered.arg)
    /\ buffered.transformer.defaultThinking
    /\ Len(MessagesOf(buffered.arg)) = 2
    /\ IsScanned(MessagesOf(buffered.arg)[1])
    /\ LastTag(MessagesOf(buffered.arg)[1].content.v, "Thinking") = "on"
    /\ buffered.result.openaiRequest = buffered.arg

---------------------------------------------------------------------------
(* The buffered response transform *)

ResponseTransformed == buffered.call = "transformResponse"

\* the message of the first choice of a response, Undefined if it has none
MessageOf(response) ==
    IF NoProperties(response) \/ NoProperties(response.choices) THEN Undefined
    ELSE IF response.choices.items = <<>> THEN Undefined
    ELSE IF NoProperties(response.choices.items[1]) THEN Undefined
    ELSE response.choices.items[1].message

\* the tool invocations of a message, in upstream order
InvocationsOf(message) ==
    IF NoProperties(message) \/ NoProperties(message.tool_calls) THEN <<>>
    ELSE message.tool_calls.items

Parses(toolCall) ==
    toolCall.function.arguments.v = <<>>
    \/ JSONParse(toolCall.function.arguments.v) # SyntaxError

\* a response the transform translates: it has a message and every
\* argument string parses
Translatable(response) ==
    /\ MessageOf(response) # Undefined
    /\ \A k \in 1..Len(InvocationsOf(MessageOf(response))) :
           Parses(InvocationsOf(MessageOf(response))[k])

HasText(value) == value.js = "text" /\ value.v # <<>>

\* C27: the content list is built in a fixed order: a Thinking block with a
\* signature first iff reasoning text is present, then a Text block iff
\* answer text is present, then one ToolUse block per tool invocation in
\* upstream order.
C27_ContentOrder ==
    (ResponseTransformed /\ Translatable(buffered.arg)) =>
        LET message == MessageOf(buffered.arg)
            content == buffered.result.content
            hasThinking == HasText(message.reasoning_content)
            hasAnswer == HasText(message.content)
            invocations == InvocationsOf(message)
            first == IF hasThinking THEN 1 ELSE 0
            second == first + (IF hasAnswer THEN 1 ELSE 0)
        IN  /\ Len(content) = second + Len(invocations)
            /\ hasThinking =>
                   /\ content[1].type = "thinking"
                   /\ content[1].thinking = message.reasoning_content
                   /\ content[1].signature =
                          _generateThinkingSignature(message.reasoning_content.v)
            /\ hasAnswer =>
                   /\ content[second].type = "text"
                   /\ content[second].text = message.content
            /\ \A k \in 1..Len(invocations) :
                   /\ content[second + k].type = "tool_use"
                   /\ content[second + k].id = invocations[k].id
                   /\ content[second + k].name = invocations[k].function.name
                   /\ content[second + k].input \in {JsonObject(<<>>),
                          JSONParse(invocations[k].function.arguments.v)}

C27_Witness ==
    /\ ResponseTransformed
    /\ Translatable(buffered.arg)
    /\ HasText(MessageOf(buffered.arg).reasoning_content)
    /\ HasText(MessageOf(buffered.arg).content)
    /\ Len(InvocationsOf(MessageOf(buffered.arg))) = 2
    /\ InvocationsOf(MessageOf(buffered.arg))[1] # InvocationsOf(MessageOf(buffered.arg))[2]
    /\ Len(buffered.result.content) = 4

\* the upstream response has no choices
NoChoices(response) ==
    /\ ~NoProperties(response)
    /\ \/ NoProperties(response.choices)
       \/ response.choices.items = <<>>
       \/ NoProperties(response.choices.items[1])

\* an argument string of the response fails to parse
SomeArgumentsFail(response) ==
    /\ MessageOf(response) # Undefined
    /\ \E k \in 1..Len(InvocationsOf(MessageOf(response))) :
           ~Parses(InvocationsOf(MessageOf(response))[k])

\* the minimal response: one text block that describes the error
IsErrorResponse(result) ==
    /\ result.type = "message"
    /\ result.role = "assistant"
    /\ Len(result.content) = 1
    /\ result.content[1].type = "text"
    /\ Head(result.content[1].text.v) = "[Transformation Error] "
    /\ result.stop_reason = Name("end_turn")
    /\ result.usage = ZeroUsage

\* C28: transformResponse never raises; when the response has no choices or
\* an argument string of a tool call fails to parse, the result is the
\* minimal response (type message, role assistant, exactly one text block
\* describing the error, stop_reason end_turn, zero usage) and none of the
\* blocks of the response is returned.
C28_ResponseNeverRaises ==
    ResponseTransformed =>
        /\ "threw" \notin DOMAIN buffered.result
        /\ (NoChoices(buffered.arg) \/ SomeArgumentsFail(buffered.arg)) =>
               IsErrorResponse(buffered.result)

C28_Witness ==
    /\ ResponseTransformed
    /\ SomeArgumentsFail(buffered.arg)
    /\ HasText(MessageOf(buffered.arg).reasoning_content)
    /\ HasText(MessageOf(buffered.arg).content)
    /\ Len(InvocationsOf(MessageOf(buffered.arg))) = 2
    /\ Parses(InvocationsOf(MessageOf(buffered.arg))[1])
    /\ buffered.arg.usage = UsageAnthropic
    /\ IsErrorResponse(buffered.result)

---------------------------------------------------------------------------
(* The parser after reset *)

\* a parser as the constructor makes it, with the limit of the connection
FreshParser == SSEParser([maxBufferSize |-> Num(MaxParserBuffer)])

ResetCalledLast == pcalls # <<>> /\ Last(pcalls).op = "reset"

\* the most recent call is a parse call that directly follows a reset
ParsedAfterReset ==
    /\ Len(pcalls) >= 2
    /\ pcalls[Len(pcalls) - 1].op = "reset"
    /\ Last(pcalls).op = "parse"

\* C29: after reset() the parser is as a newly constructed one with the same
\* limit: the buffered partial line is gone and the next parse call returns
\* what a new parser returns for the chunk, its first event with sequence
\* index 1, whatever was parsed before (a resource-limit error included).
C29_ResetIsFresh ==
    /\ ResetCalledLast => parser = FreshParser
    /\ ParsedAfterReset =>
           LET fresh == parse(FreshParser, Last(pcalls).arg) IN
           /\ parser = fresh.parser
           /\ pret = fresh.events
           /\ pthrew = fresh.threw
           /\ pret # <<>> => pret[1].index = Num(1)

\* a call emitted an event and left a partial line, reset, and the next
\* call emitted an event
C29_Witness ==
    /\ Len(pcalls) = 3
    /\ ParsedAfterReset
    /\ pcalls[1].op = "parse"
    /\ parse(FreshParser, pcalls[1].arg).parser.buffer # <<>>
    /\ parse(FreshParser, pcalls[1].arg).parser.eventCount = 1
    /\ pret # <<>>
    /\ pret[1].index = Num(1)

\* the same after a call that raised the resource-limit error
C29_WitnessAfterError ==
    /\ Len(pcalls) = 3
    /\ ParsedAfterReset
    /\ pcalls[1].op = "parse"
    /\ parse(FreshParser, pcalls[1].arg).threw
    /\ pret # <<>>
    /\ pret[1].index = Num(1)

---------------------------------------------------------------------------
(* Event names *)

\* the names the claim gives the events of the payload lines among the
\* given lines: that of the most recent 'event:' line since the event
\* emitted before, 'message' when there was none
RECURSIVE NamesExpected(_, _)
NamesExpected(lines, name) ==
    IF lines = <<>> THEN <<>>
    ELSE IF startsWith(Head(lines), PrefixEvent)
         THEN NamesExpected(Tail(lines), trim(substring(Head(lines), 7)))
    ELSE IF IsSentinelLine(Head(lines))
         THEN NamesExpected(Tail(lines), EvMessage)
    ELSE IF IsPayloadLine(Head(lines))
         THEN <<name>> \o NamesExpected(Tail(lines), EvMessage)
    ELSE NamesExpected(Tail(lines), name)

IsPayloadEvent(e) == e.data # Null

\* C30: every non-sentinel event returned by parse carries the name of the
\* most recent 'event:' line received since the event emitted before it, or
\* 'message' when there was none, also when the 'event:' line and the
\* 'data:' line arrived in different parse calls; after an event the name
\* is reset.
C30_EventNames ==
    (OnlyParsed /\ ~pthrew) =>
        LET lines == split(TextFed(pcalls), "\n")
            expected == NamesExpected(SubSeq(lines, 1, Len(lines) - 1), EvMessage)
            emitted == SelectSeq(pout, IsPayloadEvent)
        IN  /\ Len(emitted) = Len(expected)
            /\ \A i \in 1..Len(emitted) : emitted[i].event = expected[i]

---------------------------------------------------------------------------
(* Blocks and the deltas appended to them *)

\* kinds and contents the blocks have after a history of calls, when every
\* delta is appended to the block that is current at its call
RECURSIVE BlocksExpected(_, _)
BlocksExpected(history, blocks) ==
    IF history = <<>> THEN blocks
    ELSE LET c == Head(history) IN
         BlocksExpected(Tail(history),
            IF c.op = "startBlock"
            THEN Append(blocks, [type |-> c.arg, content |-> <<>>])
            ELSE IF c.op = "addDelta" /\ blocks # <<>>
            THEN [blocks EXCEPT ![Len(blocks)].content = @ \o c.arg]
            ELSE blocks)

\* the calls of a history stay within the limits of the accumulator
WithinLimits(history) ==
    LET blocks == BlocksExpected(history, <<>>) IN
    /\ Len(blocks) <= MaxBlocks
    /\ \A i \in 1..Len(blocks) : Len(blocks[i].content) <= MaxBuffer

\* C31: after any sequence of startBlock and addDelta calls within the
\* limits every block has the kind it was started with, its position as
\* index, and as content the concatenation, in order, of the deltas
\* appended while it was the current block: later calls change no earlier
\* block.
C31_BlocksKeepTheirDeltas ==
    WithinLimits(calls) =>
        LET blocks == BlocksExpected(calls, <<>>) IN
        /\ Len(acc.contentBlocks) = Len(blocks)
        /\ \A i \in 1..Len(blocks) :
              /\ acc.contentBlocks[i].index = i - 1
              /\ acc.contentBlocks[i].type = blocks[i].type
              /\ acc.contentBlocks[i].content = blocks[i].content

----------------------------------------------------------------------------
(* C32 *)

\* C32: once Finalize has run the stream is terminal: no later call of
\* transformDelta, whether its event carries reasoning text, answer text or
\* the sentinel, produces a downstream event, so message_stop is the last
\* event of the stream.
C32_FinalizedIsTerminal ==
    acc.finalized => (out # <<>> /\ Last(out).event = "message_stop")

----------------------------------------------------------------------------
(* C33 *)

\* C33: in every emitted stream a message_delta or a message_stop is preceded
\* by a message_start, also when the sentinel is the first upstream event or
\* finalizeDelta is called before any delta was processed.
C33_CloseOnlyAfterStart ==
    \A p \in 1..Len(out) :
        out[p].event \in {"message_delta", "message_stop"} =>
            \E q \in 1..(p - 1) : out[q].event = "message_start"

----------------------------------------------------------------------------
(* C34 *)

\* the stream has just been closed: its one Finalize is the last call made
ClosedLast ==
    /\ calls # <<>> /\ IsFinalizeCall(Last(calls))
    /\ \A i \in 1..(Len(calls) - 1) : ~IsFinalizeCall(calls[i])

\* C34: whatever the order of reasoning and answer deltas, on a stream just
\* closed by Finalize without a resource-limit error every
\* content_block_start is followed, before message_stop, by exactly one
\* content_block_stop of the same index.
C34_EveryBlockStopped ==
    (ClosedLast /\ ~aborted) =>
        \A p \in PositionsOf("content_block_start", 0)
                 \cup PositionsOf("content_block_start", 1) :
            \E last \in 1..Len(out) :
                /\ out[last].event = "message_stop"
                /\ Cardinality({ q \in PositionsOf("content_block_stop", out[p].index) :
                                   p < q /\ q < last }) = 1

----------------------------------------------------------------------------
(* C35 *)

\* C35: the per-kind working buffer never differs from the block it shadows:
\* in every state reached through startBlock, addDelta and stopCurrentBlock
\* the content of a current Thinking block equals thinkingBuffer and the
\* content of a current Text block equals textBuffer.
C35_BufferShadowsBlock ==
    HasCurrentBlock(acc) =>
        LET block == getCurrentBlock(acc) IN
        /\ block.type = "thinking" => block.content = acc.thinkingBuffer
        /\ block.type = "text" => block.content = acc.textBuffer

\* a second block of a kind has received a delta after an earlier block of
\* the same kind had received one: the buffer was emptied in between
C35_Witness ==
    /\ Len(acc.contentBlocks) = 2
    /\ acc.contentBlocks[1].type = acc.contentBlocks[2].type
    /\ acc.contentBlocks[1].type \in {"thinking", "text"}
    /\ acc.contentBlocks[1].content # <<>>
    /\ acc.contentBlocks[2].content # <<>>
    /\ acc.contentBlocks[2].content # acc.contentBlocks[1].content

----------------------------------------------------------------------------
(* C36 *)

\* C36: in every reachable accumulator state currentBlockIndex equals the
\* number of recorded blocks minus one (so it is -1 exactly when no block is
\* recorded), and the block at position i of contentBlocks has index i.
C36_IndexTracksBlocks ==
    /\ acc.currentBlockIndex = Len(acc.contentBlocks) - 1
    /\ acc.currentBlockIndex = -1 <=> acc.contentBlocks = <<>>
    /\ \A i \in 1..Len(acc.contentBlocks) : acc.contentBlocks[i].index = i - 1

\* the block limit is reached and a further startBlock has raised
C36_Witness ==
    /\ Len(acc.contentBlocks) = MaxBlocks
    /\ calls # <<>> /\ Last(calls).op = "startBlock" /\ threw

----------------------------------------------------------------------------
(* C37 *)

\* the texts of the content_block_delta events emitted so far for a block
\* index, concatenated in emission order
DeltaText(index) ==
    LET deltas == SelectSeq(out, LAMBDA e : /\ e.event = "content_block_delta"
                                            /\ e.index = index)
    IN Flatten([k \in 1..Len(deltas) |-> deltas[k].text])

\* the content_block_delta at position p of the stream carries the index and
\* the kind of the block started last before it
DeltaOfLatestBlock(p) ==
    LET starts == Named(SubSeq(out, 1, p - 1), "content_block_start") IN
    /\ starts # <<>>
    /\ out[p].index = Last(starts).index
    /\ out[p].type = (IF Last(starts).type = "thinking"
                      THEN "thinking_delta" ELSE "text_delta")
    /\ Last(starts).type \in {"thinking", "text"}

\* C37: at every point of a stream, for each block index i the texts of the
\* content_block_delta events emitted so far for i concatenate to the content
\* the accumulator holds for block i, and every content_block_delta carries
\* the index and the kind of the most recently started block.
C37_AtEveryPoint ==
    /\ \A i \in 1..Len(acc.contentBlocks) :
          DeltaText(i - 1) = acc.contentBlocks[i].content
    /\ \A p \in 1..Len(out) :
          out[p].event = "content_block_delta" => DeltaOfLatestBlock(p)

\* C37 (amended): the same on a stream not aborted by a resource-limit
\* error; a transformDelta call that raises returns no events, also not the
\* ones for deltas it had already appended to the accumulator.
C37_DeltasMatchContent ==
    ~aborted =>
        /\ \A i \in 1..Len(acc.contentBlocks) :
              DeltaText(i - 1) = acc.contentBlocks[i].content
        /\ \A p \in 1..Len(out) :
              out[p].event = "content_block_delta" => DeltaOfLatestBlock(p)

\* a stream not aborted with a Thinking and a Text block, one of which has
\* received two deltas
C37_Witness ==
    /\ ~aborted
    /\ Len(acc.contentBlocks) = 2
    /\ acc.contentBlocks[1].type # acc.contentBlocks[2].type
    /\ \A i \in 1..2 : acc.contentBlocks[i].content # <<>>
    /\ \E i \in 0..1 :
          Len(SelectSeq(out, LAMBDA e : /\ e.event = "content_block_delta"
                                        /\ e.index = i)) >= 2

----------------------------------------------------------------------------
(* C38 *)

RECURSIVE Raised(_, _)
\* some parse call of the history, made on parser p, raised the
\* resource-limit error
Raised(p, history) ==
    IF history = <<>> THEN FALSE
    ELSE IF Head(history).op = "reset" THEN Raised(reset(p), Tail(history))
    ELSE parse(p, Head(history).arg).threw
         \/ Raised(parse(p, Head(history).arg).parser, Tail(history))

\* the upstream stream, fed or still to come, has only 'data:' lines and
\* blank lines
DataLinesOnly ==
    LET lines == split(Utf8Decode(FedBytes(pcalls) \o wire), "\n") IN
    \A i \in 1..Len(lines) : lines[i] = <<>> \/ startsWith(lines[i], PrefixData)

\* the events of one parse call, on a new parser whose cap the call does not
\* hit, for the whole of the bytes fed so far
WholeParse(bytes) ==
    parse(SSEParser([maxBufferSize |-> Num(Len(bytes) + 1)]), ChunkOf(bytes)).events

\* C38: for an upstream stream of 'data:' lines and blank lines only, and as
\* long as no parse call has hit the buffer cap, the events returned by the
\* successive parse calls, concatenated, are those of one parse call on the
\* whole of what was fed, however the stream was cut into chunks.
C38_ChunkingIrrelevant ==
    (OnlyParsed /\ DataLinesOnly /\ ~Raised(FreshParser, pcalls)) =>
        pout = WholeParse(FedBytes(pcalls))

\* the same for string chunks, which are cut between characters
C38_StringChunks == encoding = "utf8" => C38_ChunkingIrrelevant

\* three string chunks of a stream of data lines have given two events
C38_StringWitness ==
    /\ encoding = "utf8" /\ OnlyParsed /\ DataLinesOnly
    /\ ~Raised(FreshParser, pcalls)
    /\ Len(pcalls) = 3 /\ Len(pout) >= 2

----------------------------------------------------------------------------
(* C39 *)

\* the call is transformDelta for an event whose delta has only the text
\* field named: reasoning_content or content
IsDeltaOf(c, field) ==
    /\ c.op = "transformDelta"
    /\ CarriesDelta(c.arg)
    /\ Truthy(c.arg.data.choice0.delta[field])
    /\ \A other \in {"reasoning_content", "content"} \ {field} :
          ~Truthy(c.arg.data.choice0.delta[other])

\* a delta of the current block's kind is processed without an error
ExtendsCurrent(field, kind) ==
    /\ Called /\ IsDeltaOf(Last(calls'), field) /\ ~threw'
    /\ HasCurrentBlock(acc) /\ getCurrentBlock(acc).type = kind

\* C39: the blocks transformDelta creates alternate in kind: no two
\* consecutive content blocks of a stream have the same kind, and a reasoning
\* delta arriving while the current block is a Thinking block (an answer delta
\* while it is a Text block) extends that block and opens no new one.
C39_KindsAlternate ==
    /\ [](\A i \in 1..(Len(acc.contentBlocks) - 1) :
             acc.contentBlocks[i].type # acc.contentBlocks[i + 1].type)
    /\ [][ \A pair \in {<<"reasoning_content", "thinking">>, <<"content", "text">>} :
             ExtendsCurrent(pair[1], pair[2]) =>
                /\ Len(acc'.contentBlocks) = Len(acc.contentBlocks)
                /\ getCurrentBlock(acc').content =
                      getCurrentBlock(acc).content
                      \o Last(calls').arg.data.choice0.delta[pair[1]].v ]_vars

\* two consecutive reasoning deltas, then answer text: two blocks, the first
\* holding both reasoning deltas
C39_Witness ==
    /\ Len(calls) >= 3
    /\ IsDeltaOf(calls[1], "reasoning_content")
    /\ IsDeltaOf(calls[2], "reasoning_content")
    /\ IsDeltaOf(calls[3], "content")
    /\ ~aborted
    /\ Len(acc.contentBlocks) = 2
    /\ Len(acc.contentBlocks[1].content) >= 2

----------------------------------------------------------------------------
(* C40 *)

\* C40: once parse has raised the resource-limit error the failing call has
\* kept the oversize buffer, and every later parse call on the parser raises
\* it too, returns nothing and keeps the buffer with its chunk appended,
\* until reset() is called.
C40_ErrorPersists ==
    /\ [](pthrew => /\ Last(pcalls).op = "parse"
                    /\ Len(parser.buffer) > parser.maxBufferSize)
    /\ [][ (pthrew /\ ParseCalled) =>
               /\ pthrew'
               /\ pret' = <<>>
               /\ parser'.buffer = parser.buffer \o toString(Last(pcalls').arg)
               /\ parser'.eventCount = parser.eventCount ]_vars

\* three parse calls in a row: the first raised, and the third, two calls
\* later, has raised as well
C40_Witness ==
    /\ OnlyParsed /\ Len(pcalls) = 3
    /\ Raised(FreshParser, SubSeq(pcalls, 1, 1))
    /\ pthrew

===========================================================================
